---- MODULE Spec2Model ----
(***************************************************************************)
(* A model of OpenXiino: the HTML -> Xiino page composer                   *)
(* (lib/xiino_html_converter.py), the EBD image converter                  *)
(* (lib/xiino_image_converter.py) and its bitmap coders (lib/mode9.py,     *)
(* lib/scanline.py).                                                       *)
(*                                                                         *)
(* Each component has its own specification over its own group of          *)
(* variables; the variables of the other components keep their idle value. *)
(*   Spec      the page composer: tokenizer handlers, image tasks, gather  *)
(*   ConvSpec  one EBDConverter: background initialization, the scaler,    *)
(*             and a convert_* call waiting for it                         *)
(*   M9Spec    compress_mode9's row loop over compress_line, one loop      *)
(*             iteration per step                                          *)
(*   ScanSpec  compress_data_with_scanline, one row per step               *)
(*   TagSpec   one whitelisted start tag with its attributes, through      *)
(*             _fix_link_urls, _filter_attributes and _build_tag_string    *)
(*   PackSpec  _convert_mode0 / _convert_mode2 / _convert_mode4, one row   *)
(*             per step, and the scanline call of _convert_mode1/3/5       *)
(*   QuantSpec find_closest_color / find_closest_gray on one pixel, alone  *)
(*             or under a ditherer, and the grey levels the 2-bit and      *)
(*             4-bit coders pack                                           *)
(*   ServerSpec XiinoDataServer.handle_request answering one request: what *)
(*             it writes to the client on each of its paths                *)
(*   CookieSpec prepare_request_cookies / prepare_response_cookies over a  *)
(*             list of cookies, one loop iteration per step                *)
(*   DitherSpec apply_dithering on a small grey image, one row of the      *)
(*             Floyd-Steinberg loop per step, and convert_colour on the    *)
(*             same image                                                  *)
(*   PaletteSpec the global PALETTE_ARRAY of lib/dithering.py under two    *)
(*             concurrent dithering calls                                  *)
(*   RateSpec  check_rate_limit run by two handler threads over the        *)
(*             shared REQUEST_TRACKING                                     *)
(***************************************************************************)
EXTENDS Integers, Sequences, FiniteSets, TLC

VARIABLES
    \* ---- page composer (XiinoHTMLParser) ----
    pc,                     \* where feed_async / its caller stands
    hist,                   \* the tokens HTMLParser.feed has delivered so far
    buffer,                 \* __parsed_data_buffer
    image_tasks,            \* image_tasks, each with the state of its asyncio.Task
    image_count,            \* image_count
    next_ebd_ref,           \* next_ebd_ref
    total_size,             \* total_size
    parsing_supported_tag,  \* parsing_supported_tag
    cleanup_required,       \* _cleanup_required
    error,                  \* the exception feed_async is raising, or "none"
    page,                   \* what get_parsed_data returned (once pc = "got")
    \* ---- image converter (EBDConverter) ----
    conv_src,               \* _image: what the converter was constructed with
    override_scale_logic,   \* _override_scale_logic
    init_task,              \* the task running _initialize: its state
    init_complete,          \* _init_complete (an asyncio.Event)
    self_image,             \* image: the size of the prepared image, or NoImage
    call,                   \* the convert_* call of the converter's user
    call_pc,                \* where that call stands
    call_result,            \* the EBDImage it returned or the exception it raised
    grayscale_depth,        \* XiinoHTMLParser.grayscale_depth of the composer that calls
    \* ---- mode-9 coder (compress_mode9 / compress_line) ----
    m9_rows,                \* rows: the pixels of the image, row by row
    m9_y,                   \* the row compress_line is working on (1-based)
    m9_index,               \* index: compress_line's position in that row (0-based)
    m9_out,                 \* buffer: the bytes emitted so far, all rows
    \* ---- scanline coder (compress_data_with_scanline) ----
    scan_rows,              \* rows: the data reshaped to rows of `width` bytes
    scan_i,                 \* the next row to compress (1-based)
    scan_out,               \* buffer: the bytes emitted so far
    \* ---- one start tag with attributes (_handle_regular_tag) ----
    tag_name,               \* tag, as HTMLParser hands it over (lower case)
    tag_base,               \* self.base_url
    tag_input,              \* attrs as HTMLParser handed them over
    tag_attrs,              \* attrs as they pass through the functions
    tag_pc,                 \* where _handle_regular_tag stands
    tag_out,                \* the tag string appended to the buffer
    \* ---- uncompressed bitmap coders (_convert_mode0 / 2 / 4) ----
    pack_mode,              \* which coder runs: 0, 2 or 4
    pack_rows,              \* the pixels getpixel returns, row by row
    pack_y,                 \* the row the coder works on (1-based)
    pack_out,               \* buf: the bytes appended so far
    width_bytes,            \* the row width _convert_mode1/3/5 hands to the scanline coder (0: not called)
    scan_result,            \* what that call gave: the compressed bytes, or ValueError
    \* ---- quantization of one pixel (color_matching, dithering) ----
    q_fn,                   \* what runs: "color", "gray", "mode2", "mode4"
    q_levels,               \* levels, the argument of find_closest_gray
    q_pixel,                \* the grey level of the pixel, 0..255
    q_dist,                 \* where the Lab distances to the palette are least
    q_pc,                   \* "start", "dithered", "done"
    q_out,                  \* the index returned, or the exception raised
    \* ---- XiinoDataServer.handle_request (dataserver.py) ----
    request,                \* what the request line and headers are like
    srv_pc,                 \* where handle_request stands
    headers_sent,           \* self.headers_sent
    wfile,                  \* what has been written to self.wfile, in order
    raised,                 \* the exceptions raised while handling, in order
    \* ---- CookieManager (lib/cookie_manager.py) ----
    ck_fn,                  \* "request" (prepare_request_cookies) or "response"
    ck_input,               \* the cookies given, in order
    ck_cookies,             \* the cookies the loop runs over
    ck_i,                   \* the loop's position in them
    ck_out,                 \* what has been collected to return
    ck_pc,                  \* "start", "loop", "done"
    \* ---- dithering (lib/dithering.py) and the colour conversion ----
    dth_data,               \* data: the image, rows of grey levels
    dth_priority,           \* IMAGE_DITHER_PRIORITY
    dth_pc,                 \* "start", "floyd_steinberg", "ordered", "dithered"
    dth_y,                  \* the row the Floyd-Steinberg loop is at
    error_buffer,           \* error_buffer, in 256ths
    row_with_error,         \* the values that were quantized, in 256ths
    quant_errors,           \* their residuals, in 256ths
    dth_indices,            \* indices: what the ditherer returns
    enc_indices,            \* the indices convert_colour has encoded
    \* ---- the palette global of lib/dithering.py ----
    PALETTE_ARRAY,          \* the module global: "unbound", or the palette bound last
    dcall,                  \* per thread: its call, where it is, and the palettes it has read
    \* ---- rate limiter (check_rate_limit over REQUEST_TRACKING) ----
    REQUEST_TRACKING,       \* the module dictionary: address -> times of its admitted requests
    rate_call,              \* per handler thread: where it is in check_rate_limit, and its locals
    admitted,               \* history: the requests check_rate_limit has let through
    now,                    \* time.time(), in ticks
    requests                \* the requests that have arrived

compVars == <<pc, hist, buffer, image_tasks, image_count, next_ebd_ref,
              total_size, parsing_supported_tag, cleanup_required, error, page>>

convVars == <<conv_src, override_scale_logic, init_task, init_complete, self_image,
              call, call_pc, call_result, grayscale_depth>>

m9Vars == <<m9_rows, m9_y, m9_index, m9_out>>

scanVars == <<scan_rows, scan_i, scan_out>>

tagVars == <<tag_name, tag_base, tag_input, tag_attrs, tag_pc, tag_out>>

packVars == <<pack_mode, pack_rows, pack_y, pack_out, width_bytes, scan_result>>

quantVars == <<q_fn, q_levels, q_pixel, q_dist, q_pc, q_out>>

serverVars == <<request, srv_pc, headers_sent, wfile, raised>>

cookieVars == <<ck_fn, ck_input, ck_cookies, ck_i, ck_out, ck_pc>>

ditherVars == <<dth_data, dth_priority, dth_pc, dth_y, error_buffer, row_with_error, quant_errors, dth_indices, enc_indices>>

paletteVars == <<PALETTE_ARRAY, dcall>>

rateVars == <<REQUEST_TRACKING, rate_call, admitted, now, requests>>

vars ==
    <<compVars, convVars, m9Vars, scanVars, tagVars, packVars, quantVars, serverVars, cookieVars, ditherVars, paletteVars, rateVars>>

\* The variables the actions of one component leave alone.
notComp == <<convVars, m9Vars, scanVars, tagVars, packVars, quantVars, serverVars,
      cookieVars, ditherVars, paletteVars, rateVars>>
notConv == <<compVars, m9Vars, scanVars, tagVars, packVars, quantVars, serverVars,
      cookieVars, ditherVars, paletteVars, rateVars>>
notM9 == <<compVars, convVars, scanVars, tagVars, packVars, quantVars, serverVars,
      cookieVars, ditherVars, paletteVars, rateVars>>
notScan == <<compVars, convVars, m9Vars, tagVars, packVars, quantVars, serverVars,
      cookieVars, ditherVars, paletteVars, rateVars>>
notTag == <<compVars, convVars, m9Vars, scanVars, packVars, quantVars, serverVars,
      cookieVars, ditherVars, paletteVars, rateVars>>
notPack == <<compVars, convVars, m9Vars, scanVars, tagVars, quantVars, serverVars,
      cookieVars, ditherVars, paletteVars, rateVars>>
notQuant == <<compVars, convVars, m9Vars, scanVars, tagVars, packVars, serverVars,
      cookieVars, ditherVars, paletteVars, rateVars>>
notServer == <<compVars, convVars, m9Vars, scanVars, tagVars, packVars, quantVars,
      cookieVars, ditherVars, paletteVars, rateVars>>
notCookie ==
    <<compVars, convVars, m9Vars, scanVars, tagVars, packVars, quantVars, serverVars,
      ditherVars, paletteVars, rateVars>>
notDither ==
    <<compVars, convVars, m9Vars, scanVars, tagVars, packVars, quantVars, serverVars, cookieVars,
      paletteVars, rateVars>>
notPalette ==
    <<compVars, convVars, m9Vars, scanVars, tagVars, packVars, quantVars, serverVars, cookieVars, ditherVars,
      rateVars>>
notRate ==
    <<compVars, convVars, m9Vars, scanVars, tagVars, packVars, quantVars, serverVars, cookieVars, ditherVars, paletteVars>>

-----------------------------------------------------------------------------
(* Bounds of the model and the configuration it runs under.                *)

\* The longest token stream fed to the parser.
MaxTokens == 3
\* max_size: HTTP_MAX_PAGE_SIZE is read from the environment; a small budget
\* lets three tokens reach it.
MaxPageSize == 300
\* MAX_IMAGES_PER_PAGE: IMAGE_MAX_PER_PAGE is read from the environment.
MAX_IMAGES_PER_PAGE == 2
\* Lengths (in bytes, after strip) of the text nodes of the input.
TextShort == 20
TextLong == 299
\* Length of the raw_data of a converted image.
RawLen == 12
\* The widest row given to the mode-9 coder.
M9MaxWidth == 4
\* The widest image given to the uncompressed bitmap coders: a full byte of
\* one-bit pixels and a partial one.
PackMaxWidth == 9
\* The longest attribute list of a start tag.
MaxAttrs == 2
\* The widest row (in bytes) given to the scanline coder: one full 8-byte
\* chunk and a partial one.
ScanMaxWidth == 9
\* The longest list of cookies given to the cookie manager.
MaxCookies == 3
\* CookieManager.MAX_COOKIES_PER_SITE, which is 20, scaled down so that a list
\* of MaxCookies cookies goes over it.
MAX_COOKIES_PER_SITE == 2
\* CookieManager.MAX_COOKIE_SIZE, which is 4096, scaled down.
MAX_COOKIE_SIZE == 8
\* The widest image given to the ditherers.
DthMaxWidth == 3

\* The image heights of the calls that share the palette global.
PalMaxHeight == 2

\* The rate limiter, scaled: requests admitted per window (60 in
\* dataserver.py), the window in ticks (60 seconds), the last tick of the
\* clock and the requests that arrive in all.
MAX_REQUESTS_PER_MIN == 2
RateWindow == 2
MaxTime == 3
MaxRequests == 4

-----------------------------------------------------------------------------
(* Helpers on sequences and numbers.                                       *)

RECURSIVE SumSeq(_)
SumSeq(s) == IF s = <<>> THEN 0 ELSE Head(s) + SumSeq(Tail(s))

RECURSIVE Digits(_)
\* len(str(n)) for n >= 0
Digits(n) == IF n < 10 THEN 1 ELSE 1 + Digits(n \div 10)

\* round(a / b), as Python rounds: to the nearest integer, a tie to the even one.
RoundDiv(a, b) ==
    LET q == a \div b
        r == a % b IN
    IF 2 * r < b THEN q
    ELSE IF 2 * r > b THEN q + 1
    ELSE IF q % 2 = 0 THEN q ELSE q + 1

\* len(b64encode(raw)) for len(raw) = n
B64Len(n) == 4 * ((n + 2) \div 3)

-----------------------------------------------------------------------------
(* Tables of lib/xiino_html_converter.py.                                  *)

SUPPORTED_TAGS ==
    {"A", "ADDRESS", "AREA", "B", "BASE", "BASEFONT", "BLINK", "BLOCKQUOTE",
     "BODY", "BGCOLOR", "BR", "CLEAR", "CENTER", "CAPTION", "CITE", "CODE",
     "DD", "DIR", "DIV", "DL", "DT", "FONT", "FORM", "FRAME", "FRAMESET",
     "H1", "H2", "H3", "H4", "H5", "H6", "HR", "I", "IMG", "INPUT",
     "ISINDEX", "KBD", "LI", "MAP", "META", "MULTICOL", "NOBR", "NOFRAMES",
     "OL", "OPTION", "P", "PLAINTEXT", "PRE", "S", "SELECT", "SMALL",
     "STRIKE", "STRONG", "STYLE", "SUB", "SUP", "TABLE", "TITLE",
     "TD", "TH", "TR", "TT", "U", "UL", "VAR", "XMP", "HEAD"}

\* str.upper() on the tag names the model feeds (HTMLParser hands them over
\* in lower case).
Upper(tag) ==
    CASE tag = "p" -> "P"
      [] tag = "img" -> "IMG"
      [] tag = "span" -> "SPAN"
      [] tag = "a" -> "A"
      [] tag = "b" -> "B"
      [] tag = "div" -> "DIV"
      [] tag = "hr" -> "HR"
      [] tag = "form" -> "FORM"
      [] OTHER -> tag

-----------------------------------------------------------------------------
(* The input: URLs and tokens.                                             *)

NoSrc == [kind |-> "none", scheme |-> "", netloc |-> ""]

\* The src values of the model: a site-relative path, an absolute http URL
\* would validate the same way; an absolute URL of another scheme; and an
\* absolute URL whose host part opens a bracket that is never closed.
Urls ==
    { [kind |-> "path", scheme |-> "", netloc |-> ""],
      [kind |-> "abs", scheme |-> "ftp", netloc |-> "h"],
      [kind |-> "abs", scheme |-> "http", netloc |-> "["] }

\* The tokens HTMLParser hands to the handlers.  `text` is what a data token
\* holds besides plain characters, as written in the document: nothing, or
\* the character references of a tag.
Tokens ==
    {[type |-> "start", tag |-> t, src |-> NoSrc, len |-> 0, text |-> ""] : t \in {"p", "span"}}
    \cup {[type |-> "start", tag |-> "img", src |-> s, len |-> 0, text |-> ""] :
              s \in Urls \cup {NoSrc}}
    \cup {[type |-> "end", tag |-> t, src |-> NoSrc, len |-> 0, text |-> ""] : t \in {"p", "span"}}
    \cup {[type |-> "data", tag |-> "", src |-> NoSrc, len |-> n, text |-> ""] :
              n \in {0, TextShort, TextLong}}
    \cup {[type |-> "data", tag |-> "", src |-> NoSrc, len |-> TextShort,
           text |-> "&lt;script&gt;"]}

\* html.unescape, which HTMLParser applies to text before handle_data sees it
\* (convert_charrefs=True).
unescape(text) ==
    CASE text = "&lt;script&gt;" -> "<script>"
      [] OTHER -> text

\* What conversion can hand to _handle_converted_image: an EBDImage.
EbdResults == {[mode |-> 9, width |-> 5, height |-> 5, raw |-> RawLen]}

-----------------------------------------------------------------------------
(* Chunks of the page buffer.  A chunk is the string the code appends; the *)
(* model keeps what determines its bytes, and `origin`, the position in    *)
(* the token stream of the token it stands for.                            *)

Chunk(kind, text, len, ref, ebd, origin) ==
    [kind |-> kind, text |-> text, len |-> len, ref |-> ref, ebd |-> ebd, origin |-> origin]

NoEbd == [mode |-> 0, width |-> 0, height |-> 0, raw |-> 0]

\* _build_tag_string: "<TAG>\n" (no attribute survives the filter in the model's tokens)
TagChunk(tag, origin) == Chunk("tag", Upper(tag), 0, 0, NoEbd, origin)
\* "</TAG>\n"
EndTagChunk(tag, origin) == Chunk("endtag", Upper(tag), 0, 0, NoEbd, origin)
\* content + "\n"
TextChunk(text, len, origin) == Chunk("text", text, len, 0, NoEbd, origin)
\* "" : the placeholder of an image slot
Placeholder(origin) == Chunk("placeholder", "", 0, 0, NoEbd, origin)
\* "<p>[msg]</p>\n"
Diag(msg, origin) == Chunk("diag", msg, 0, 0, NoEbd, origin)
\* img_tag + ebd_tag
Envelope(ebd, ref, origin) == Chunk("envelope", "", 0, ref, ebd, origin)

\* len(generate_img_tag(name="#ref") + "\n")
ImgTagLen(ebd, ref) ==
    64 + 2 * Digits(ebd.width) + 2 * Digits(ebd.height) + Digits(ref) + 1

\* len(generate_ebdimage_tag(name=ref) + "\n")
EbdTagLen(ebd, ref) ==
    44 + Digits(ebd.mode) + Digits(ref) + B64Len(ebd.raw) + 1

\* len(chunk.encode('utf-8'))
ChunkBytes(c) ==
    CASE c.kind = "tag" -> 1 + Len(c.text) + 2
      [] c.kind = "endtag" -> 2 + Len(c.text) + 2
      [] c.kind = "text" -> c.len + 1
      [] c.kind = "placeholder" -> 0
      [] c.kind = "diag" -> 4 + Len(c.text) + 6
      [] c.kind = "envelope" -> ImgTagLen(c.ebd, c.ref) + EbdTagLen(c.ebd, c.ref)

\* len("".join(buffer).encode('utf-8'))
PageBytes(buf) == SumSeq([i \in 1..Len(buf) |-> ChunkBytes(buf[i])])

-----------------------------------------------------------------------------
(* The page composer: XiinoHTMLParser.                                     *)

\* self.max_size
max_size == MaxPageSize

CompInit ==
    /\ pc = "feed"
    /\ hist = <<>>
    /\ buffer = <<>>
    /\ image_tasks = <<>>
    /\ image_count = 0
    /\ next_ebd_ref = 1
    /\ total_size = 0
    /\ parsing_supported_tag = TRUE
    /\ cleanup_required = FALSE
    /\ error = "none"
    /\ page = <<>>

\* validate_image_url for a URL that is no data: URL.  "ValueError" when
\* urlparse raises (an unbalanced bracket in the host part: "Invalid IPv6 URL").
validate_image_url(url) ==
    IF url.kind = "path" THEN "true"
    ELSE IF url.netloc = "[" THEN "ValueError"
    ELSE IF url.scheme \in {"http", "https"} /\ url.netloc # "" THEN "true"
    ELSE "false"

\* The size check every tokenizer handler makes before it appends a chunk:
\* raise ContentTooLargeError (caught by feed_async's `except Exception`,
\* which starts cleanup) or count the chunk and append it.
EmitChecked(chunk) ==
    LET new_size == ChunkBytes(chunk) IN
    IF total_size + new_size > max_size
    THEN /\ pc' = "cleanup"
         /\ error' = "ContentTooLargeError"
         /\ UNCHANGED <<total_size, buffer>>
    ELSE /\ total_size' = total_size + new_size
         /\ buffer' = Append(buffer, chunk)
         /\ UNCHANGED <<pc, error>>

\* A limit check that lets one image too many through.
ImageLimitReached_OffByOne == image_count > MAX_IMAGES_PER_PAGE

\* `if self.image_count >= MAX_IMAGES_PER_PAGE`
ImageLimitReached == image_count >= MAX_IMAGES_PER_PAGE

\* _handle_img_tag
handle_img_tag(tok, origin) ==
    /\ IF tok.src # NoSrc
       THEN IF ImageLimitReached
            THEN /\ buffer' = Append(buffer, Diag("Image limit exceeded", origin))
                 /\ UNCHANGED <<image_tasks, cleanup_required, image_count>>
            ELSE /\ buffer' = Append(buffer, Placeholder(origin))
                 /\ image_tasks' = Append(image_tasks,
                        [url |-> tok.src, buffer_index |-> Len(buffer) + 1,
                         state |-> "pending", outcome |-> "none", origin |-> origin])
                 /\ cleanup_required' = TRUE
                 /\ image_count' = image_count + 1
       ELSE /\ buffer' = Append(buffer, Diag("Missing image source", origin))
            /\ UNCHANGED <<image_tasks, cleanup_required, image_count>>
    /\ UNCHANGED <<pc, error, total_size, parsing_supported_tag>>

\* _handle_regular_tag
handle_regular_tag(tok, origin) ==
    /\ parsing_supported_tag' = TRUE
    /\ EmitChecked(TagChunk(tok.tag, origin))
    /\ UNCHANGED <<image_tasks, cleanup_required, image_count>>

\* handle_starttag
handle_starttag(tok) ==
    /\ pc = "feed"
    /\ Len(hist) < MaxTokens
    /\ tok.type = "start"
    /\ hist' = Append(hist, tok)
    /\ IF Upper(tok.tag) \in SUPPORTED_TAGS
       THEN IF tok.tag = "img"
            THEN handle_img_tag(tok, Len(hist) + 1)
            ELSE handle_regular_tag(tok, Len(hist) + 1)
       ELSE /\ parsing_supported_tag' = FALSE
            /\ UNCHANGED <<pc, error, buffer, total_size, image_tasks,
                           cleanup_required, image_count>>
    /\ UNCHANGED <<next_ebd_ref, page>>
    /\ UNCHANGED notComp

\* handle_data: tok.len is len(data.strip()), data the unescaped text
handle_data(tok) ==
    /\ pc = "feed"
    /\ Len(hist) < MaxTokens
    /\ tok.type = "data"
    /\ hist' = Append(hist, tok)
    /\ IF parsing_supported_tag /\ tok.len > 0
       THEN EmitChecked(TextChunk(unescape(tok.text), tok.len, Len(hist) + 1))
       ELSE UNCHANGED <<pc, error, buffer, total_size>>
    /\ UNCHANGED <<image_tasks, image_count, next_ebd_ref, parsing_supported_tag,
                   cleanup_required, page>>
    /\ UNCHANGED notComp

\* handle_endtag
handle_endtag(tok) ==
    /\ pc = "feed"
    /\ Len(hist) < MaxTokens
    /\ tok.type = "end"
    /\ hist' = Append(hist, tok)
    /\ IF Upper(tok.tag) \in SUPPORTED_TAGS
       THEN EmitChecked(EndTagChunk(tok.tag, Len(hist) + 1))
       ELSE UNCHANGED <<pc, error, buffer, total_size>>
    /\ UNCHANGED <<image_tasks, image_count, next_ebd_ref, parsing_supported_tag,
                   cleanup_required, page>>
    /\ UNCHANGED notComp

\* feed_async after self.feed(data) returned: gather the image tasks, if any.
FeedEnd ==
    /\ pc = "feed"
    /\ pc' = IF image_tasks # <<>> THEN "gather" ELSE "returned"
    /\ UNCHANGED <<hist, buffer, image_tasks, image_count, next_ebd_ref, total_size,
                   parsing_supported_tag, cleanup_required, error, page>>
    /\ UNCHANGED notComp

-----------------------------------------------------------------------------
(* Image tasks: parse_image, run by the event loop while feed_async awaits *)
(* (in gather, or in cleanup's `await img_task.task`).                     *)

TaskIds == 1..Len(image_tasks)

Finished(t) == t.state \in {"done", "raised", "cancelled"}

TasksMayRun ==
    \/ pc = "gather"
    \/ pc = "cleanup" /\ \E i \in TaskIds : image_tasks[i].state = "cancelled"

\* A task that writes its result at the end of the buffer.
SlotIndex_Append(t) == Len(buffer)

\* The buffer index a task writes its result to.
SlotIndex(t) == t.buffer_index

\* self.__parsed_data_buffer[buffer_index] = chunk; the task is done.
FillSlot(i, chunk, outcome) ==
    /\ buffer' = [buffer EXCEPT ![SlotIndex(image_tasks[i])] = chunk]
    /\ image_tasks' = [image_tasks EXCEPT ![i].state = "done", ![i].outcome = outcome]

\* The first step of parse_image: validate_image_url, then into the
\* timeout block up to the first suspension.  Tasks start in creation order.
TaskStart(i) ==
    /\ TasksMayRun
    /\ image_tasks[i].state = "pending"
    /\ \A j \in 1..(i - 1) : image_tasks[j].state # "pending"
    /\ LET t == image_tasks[i]
           v == validate_image_url(t.url) IN
       CASE v = "false" ->
              FillSlot(i, Diag("Invalid image URL", t.origin), "invalid_url")
         [] v = "ValueError" ->
              /\ image_tasks' = [image_tasks EXCEPT ![i].state = "raised",
                                                    ![i].outcome = "ValueError"]
              /\ UNCHANGED buffer
         [] v = "true" ->
              /\ image_tasks' = [image_tasks EXCEPT ![i].state = "running"]
              /\ UNCHANGED buffer
    /\ UNCHANGED <<pc, hist, image_count, next_ebd_ref, total_size,
                   parsing_supported_tag, cleanup_required, error, page>>
    /\ UNCHANGED notComp

\* `except asyncio.TimeoutError`
TaskTimeout(i) ==
    /\ TasksMayRun
    /\ image_tasks[i].state = "running"
    /\ FillSlot(i, Diag("Image processing timeout", image_tasks[i].origin), "timeout")
    /\ UNCHANGED <<pc, hist, image_count, next_ebd_ref, total_size,
                   parsing_supported_tag, cleanup_required, error, page>>
    /\ UNCHANGED notComp

\* `except ContentTooLargeError` for bytes over MAX_IMAGE_SIZE
\* (_fetch_image, _handle_data_url)
TaskImageTooLarge(i) ==
    /\ TasksMayRun
    /\ image_tasks[i].state = "running"
    /\ FillSlot(i, Diag("Image too large", image_tasks[i].origin), "too_large")
    /\ UNCHANGED <<pc, hist, image_count, next_ebd_ref, total_size,
                   parsing_supported_tag, cleanup_required, error, page>>
    /\ UNCHANGED notComp

\* `except Exception`: fetch failure, undecodable data, bad dimensions
TaskError(i) ==
    /\ TasksMayRun
    /\ image_tasks[i].state = "running"
    /\ FillSlot(i, Diag("Image processing error", image_tasks[i].origin), "error")
    /\ UNCHANGED <<pc, hist, image_count, next_ebd_ref, total_size,
                   parsing_supported_tag, cleanup_required, error, page>>
    /\ UNCHANGED notComp

\* _handle_converted_image, and parse_image's `except ContentTooLargeError`
\* around it.
handle_converted_image(i, ebd_data) ==
    /\ TasksMayRun
    /\ image_tasks[i].state = "running"
    /\ LET t == image_tasks[i]
           ebd_ref == next_ebd_ref
           new_size == ImgTagLen(ebd_data, ebd_ref) + EbdTagLen(ebd_data, ebd_ref)
                       + ebd_data.raw IN
       /\ next_ebd_ref' = next_ebd_ref + 1
       /\ IF total_size + new_size > max_size
          THEN /\ FillSlot(i, Diag("Image too large", t.origin), "over_budget")
               /\ UNCHANGED total_size
          ELSE /\ total_size' = total_size + new_size
               /\ FillSlot(i, Envelope(ebd_data, ebd_ref, t.origin), "envelope")
    /\ UNCHANGED <<pc, hist, image_count, parsing_supported_tag, cleanup_required,
                   error, page>>
    /\ UNCHANGED notComp

\* asyncio.gather returned: every task finished without raising.
GatherDone ==
    /\ pc = "gather"
    /\ \A i \in TaskIds : image_tasks[i].state = "done"
    /\ pc' = "returned"
    /\ UNCHANGED <<hist, buffer, image_tasks, image_count, next_ebd_ref, total_size,
                   parsing_supported_tag, cleanup_required, error, page>>
    /\ UNCHANGED notComp

\* asyncio.gather raised the exception of a task: `except Exception` starts
\* cleanup.
GatherRaise ==
    /\ pc = "gather"
    /\ \E i \in TaskIds : image_tasks[i].state = "raised"
    /\ pc' = "cleanup"
    /\ error' = "ValueError"
    /\ UNCHANGED <<hist, buffer, image_tasks, image_count, next_ebd_ref, total_size,
                   parsing_supported_tag, cleanup_required, page>>
    /\ UNCHANGED notComp

\* cleanup's loop: cancel the next task that is not done and await it.
CleanupCancel ==
    /\ pc = "cleanup"
    /\ cleanup_required
    /\ \E i \in TaskIds :
         /\ ~Finished(image_tasks[i])
         /\ \A j \in 1..(i - 1) : Finished(image_tasks[j])
         /\ image_tasks' = [image_tasks EXCEPT ![i].state = "cancelled"]
    /\ UNCHANGED <<pc, hist, buffer, image_count, next_ebd_ref, total_size,
                   parsing_supported_tag, cleanup_required, error, page>>
    /\ UNCHANGED notComp

\* cleanup's end (or all of it when _cleanup_required is False); feed_async
\* re-raises.
CleanupClear ==
    /\ pc = "cleanup"
    /\ ~cleanup_required \/ \A i \in TaskIds : Finished(image_tasks[i])
    /\ IF cleanup_required
       THEN /\ buffer' = <<>>
            /\ image_tasks' = <<>>
            /\ cleanup_required' = FALSE
       ELSE UNCHANGED <<buffer, image_tasks, cleanup_required>>
    /\ pc' = "raised"
    /\ UNCHANGED <<hist, image_count, next_ebd_ref, total_size,
                   parsing_supported_tag, error, page>>
    /\ UNCHANGED notComp

\* get_parsed_data
get_parsed_data ==
    /\ pc = "returned"
    /\ page' = buffer
    /\ cleanup_required' = TRUE
    /\ pc' = "got"
    /\ UNCHANGED <<hist, buffer, image_tasks, image_count, next_ebd_ref, total_size,
                   parsing_supported_tag, error>>
    /\ UNCHANGED notComp

CompNext ==
    \/ \E tok \in Tokens : handle_starttag(tok)
    \/ \E tok \in Tokens : handle_data(tok)
    \/ \E tok \in Tokens : handle_endtag(tok)
    \/ FeedEnd
    \/ \E i \in TaskIds : TaskStart(i)
    \/ \E i \in TaskIds : TaskTimeout(i)
    \/ \E i \in TaskIds : TaskImageTooLarge(i)
    \/ \E i \in TaskIds : TaskError(i)
    \/ \E i \in TaskIds : \E e \in EbdResults : handle_converted_image(i, e)
    \/ GatherDone
    \/ GatherRaise
    \/ CleanupCancel
    \/ CleanupClear
    \/ get_parsed_data

-----------------------------------------------------------------------------
(* The image converter: EBDConverter.  The constructor stores its          *)
(* arguments, creates the event and schedules _initialize as a task of its *)
(* own; convert_colour / convert_gs / convert_bw wait for the event.       *)

NoImage == [width |-> 0, height |-> 0]

CeilDiv(a, b) == (a + b - 1) \div b

\* The sizes of the raster images of the model: below, at and above the
\* widths 100 and 306 the scaling rules speak of, and 1001 x 1001, which is
\* over a million pixels.
ConvWidths == {80, 100, 150, 306, 307, 400, 1001}
ConvHeights == {50, 80, 150, 1001}

\* What a converter is constructed with: a decoded image kept in memory, the
\* path of an image file, or SVG text (well-formed, malformed, over
\* MAX_SVG_SIZE).
ConvSources ==
    {[kind |-> "image", width |-> w, height |-> h, mode |-> m, content |-> "ok"] :
        w \in ConvWidths, h \in ConvHeights, m \in {"RGB", "RGBA"}}
    \cup {[kind |-> "file", width |-> w, height |-> h, mode |-> "RGB", content |-> "ok"] :
        w \in ConvWidths, h \in ConvHeights}
    \cup {[kind |-> "svg", width |-> 100, height |-> 100, mode |-> "RGBA", content |-> c] :
        c \in {"ok", "invalid", "oversize"}}

\* The calls a user of the converter makes.
ConvCalls ==
    {[op |-> "convert_colour", depth |-> 0, compressed |-> c] : c \in BOOLEAN}
    \cup {[op |-> "convert_bw", depth |-> 0, compressed |-> c] : c \in BOOLEAN}
    \cup {[op |-> "convert_gs", depth |-> d, compressed |-> c] : d \in {2, 4, 8}, c \in BOOLEAN}

NoCall == [op |-> "none", depth |-> 0, compressed |-> FALSE]
NoResult == [kind |-> "none", exc |-> "", mode |-> 0, width |-> 0, height |-> 0]

\* The grayscale_depth the composer is built with: None, or the int() of the
\* digits after /g in the request line.  NoParser: the converter is not
\* called by a composer.
GrayscaleDepths ==
    {[given |-> TRUE, none |-> TRUE, depth |-> 0]}
    \cup {[given |-> TRUE, none |-> FALSE, depth |-> d] : d \in {0, 1, 2, 4, 8}}
NoParser == [given |-> FALSE, none |-> TRUE, depth |-> 0]

\* `if self.grayscale_depth:`
Truthy(g) == ~g.none /\ g.depth # 0

\* __init__
ConvInit ==
    /\ conv_src \in ConvSources
    /\ override_scale_logic \in BOOLEAN
    /\ init_task = [state |-> "scheduled", exc |-> ""]
    /\ init_complete = FALSE
    /\ self_image = NoImage
    /\ call = NoCall
    /\ call_pc = "idle"
    /\ call_result = NoResult
    /\ grayscale_depth = NoParser

\* _convert_svg: the size of the rasterized image.
SvgTarget(w, h) ==
    IF w < 100 /\ h < 100
    THEN [width |-> w, height |-> h]
    ELSE LET target_width == IF w > 306 THEN 153 ELSE CeilDiv(w, 2) IN
         [width |-> target_width, height |-> CeilDiv(h * target_width, w)]

\* The scaling of _initialize: math.ceil((height / width) * 153) and
\* math.ceil(width / 2), math.ceil(height / 2).
Scale(w, h) ==
    IF w > 306
    THEN [width |-> 153, height |-> CeilDiv(h * 153, w)]
    ELSE [width |-> CeilDiv(w, 2), height |-> CeilDiv(h, 2)]

\* `isinstance(self._image, str) and (...endswith('.svg') or '<svg' in ...)`
IsSvg(src) == src.kind = "svg"

\* What _initialize can come to for a source: "ok", or the exception it
\* raises.  The rasterizer may time out or reject the text it is given.
InitOutcomes(src) ==
    CASE src.kind = "svg" /\ src.content = "oversize" -> {"ValueError"}
      [] src.kind = "svg" /\ src.content = "invalid" -> {"ValueError"}
      [] src.kind = "svg" /\ src.content = "ok" -> {"ok", "TimeoutError", "ValueError"}
      [] src.kind = "file" ->
             IF src.width * src.height > 1000000 THEN {"ValueError"} ELSE {"ok"}
      [] src.kind = "image" -> {"ok"}

\* The size of self.image after a successful _initialize.
Prepared(src, override) ==
    LET opened == IF IsSvg(src) THEN SvgTarget(src.width, src.height)
                  ELSE [width |-> src.width, height |-> src.height] IN
    IF ~override /\ ~IsSvg(src) THEN Scale(opened.width, opened.height) ELSE opened

\* _initialize, run by the event loop as a task of its own: on success it
\* sets self.image and the event; on failure it logs and re-raises into the
\* task, which nobody awaits.
initialize(outcome) ==
    /\ init_task.state = "scheduled"
    /\ outcome \in InitOutcomes(conv_src)
    /\ IF outcome = "ok"
       THEN /\ self_image' = Prepared(conv_src, override_scale_logic)
            /\ init_complete' = TRUE
            /\ init_task' = [state |-> "done", exc |-> ""]
       ELSE /\ init_task' = [state |-> "failed", exc |-> outcome]
            /\ UNCHANGED <<self_image, init_complete>>
    /\ UNCHANGED <<grayscale_depth, conv_src, override_scale_logic, call, call_pc, call_result>>
    /\ UNCHANGED notConv

\* Where a call stands once _ensure_initialized has returned: convert_gs
\* raises for a depth it does not know, every other call hands its coder to a
\* worker thread.
AfterEnsure(c) ==
    IF c.op = "convert_gs" /\ c.depth \notin {2, 4} THEN "raised" ELSE "converting"

AfterEnsureResult(c) ==
    IF c.op = "convert_gs" /\ c.depth \notin {2, 4}
    THEN [NoResult EXCEPT !.kind = "exception", !.exc = "ValueError"]
    ELSE NoResult

\* convert_colour / convert_gs / convert_bw up to `await self._ensure_initialized()`:
\* Event.wait() returns at once when the event is set and suspends otherwise.
convert_call(c) ==
    /\ call_pc = "idle"
    /\ call' = c
    /\ IF init_complete
       THEN call_pc' = AfterEnsure(c) /\ call_result' = AfterEnsureResult(c)
       ELSE call_pc' = "waiting" /\ UNCHANGED call_result
    /\ UNCHANGED <<grayscale_depth, conv_src, override_scale_logic, init_task, init_complete, self_image>>
    /\ UNCHANGED notConv

\* XiinoHTMLParser._convert_image of a composer built with grayscale_depth g:
\* convert_gs(depth=g, compressed=True) or convert_colour(compressed=True).
convert_image(g) ==
    /\ call_pc = "idle"
    /\ grayscale_depth' = g
    /\ call' = IF Truthy(g)
               THEN [op |-> "convert_gs", depth |-> g.depth, compressed |-> TRUE]
               ELSE [op |-> "convert_colour", depth |-> 0, compressed |-> TRUE]
    /\ IF init_complete
       THEN call_pc' = AfterEnsure(call') /\ call_result' = AfterEnsureResult(call')
       ELSE call_pc' = "waiting" /\ UNCHANGED call_result
    /\ UNCHANGED <<conv_src, override_scale_logic, init_task, init_complete, self_image>>
    /\ UNCHANGED notConv

\* _ensure_initialized: the waiter wakes up when the event is set.
ensure_initialized ==
    /\ call_pc = "waiting"
    /\ init_complete
    /\ call_pc' = AfterEnsure(call)
    /\ call_result' = AfterEnsureResult(call)
    /\ UNCHANGED <<grayscale_depth, conv_src, override_scale_logic, init_task, init_complete, self_image, call>>
    /\ UNCHANGED notConv

\* The mode number the EBDImage of a call carries.
ResultMode(c) ==
    CASE c.op = "convert_bw" -> IF c.compressed THEN 1 ELSE 0
      [] c.op = "convert_gs" /\ c.depth = 2 -> IF c.compressed THEN 3 ELSE 2
      [] c.op = "convert_gs" /\ c.depth = 4 -> IF c.compressed THEN 4 ELSE 5
      [] c.op = "convert_colour" -> IF c.compressed THEN 9 ELSE 8

\* The worker thread is done: return EBDImage(data, width, height, mode).
convert_return ==
    /\ call_pc = "converting"
    /\ call_pc' = "returned"
    /\ call_result' = [kind |-> "EBDImage", exc |-> "", mode |-> ResultMode(call),
                       width |-> self_image.width, height |-> self_image.height]
    /\ UNCHANGED <<grayscale_depth, conv_src, override_scale_logic, init_task, init_complete, self_image, call>>
    /\ UNCHANGED notConv

ConvNext ==
    \/ \E outcome \in {"ok", "ValueError", "TimeoutError"} : initialize(outcome)
    \/ \E c \in ConvCalls : convert_call(c)
    \/ \E g \in GrayscaleDepths : convert_image(g)
    \/ ensure_initialized
    \/ convert_return

-----------------------------------------------------------------------------
(* The mode-9 coder: lib/mode9.py.                                         *)

\* Python's seq[i], 0-based.
At(seq, i) == seq[i + 1]

\* The pixels of the model: two colours of the palette and a colour that is
\* not in the palette and lies nearest to the second.
M9Pixels == {"c0", "c1", "near_c1"}

\* The images have one row (no previous row) or two (compress_line looks at
\* one previous row only).
M9Heights == {1, 2}

M9Images ==
    UNION {[1..h -> [1..w -> M9Pixels]] : h \in M9Heights, w \in 1..M9MaxWidth}

\* find_closest_palette_index(pixel), without error diffusion
find_closest_palette_index(pixel) ==
    CASE pixel = "c0" -> 0
      [] pixel = "c1" -> 1
      [] pixel = "near_c1" -> 1

\* CONTROL_CODES["RLE_k"], k in 1..6
RLE(k) == 230 + k

\* CONTROL_CODES["COPY_k_OFFSET_o"], k in 1..6, o in -1..1
COPY(k, o) == 237 + 3 * (k - 1) + (o + 1)

M9Init ==
    /\ m9_rows \in M9Images
    /\ m9_y = 1
    /\ m9_index = 0
    /\ m9_out = <<>>

M9Height == Len(m9_rows)
M9Done == m9_y > M9Height

\* The arguments of the running compress_line call.
M9Line == m9_rows[m9_y]
M9PrevLine == IF m9_y = 1 THEN <<>> ELSE m9_rows[m9_y - 1]
M9FirstLine == m9_y = 1

RECURSIVE LookbackLength(_, _, _, _, _, _)
\* The three `while` loops that measure a copy from the previous line at
\* offset off, n matches found so far.
LookbackLength(line, prev_line, index, off, n, window_size) ==
    IF /\ index + n < Len(line)
       /\ index + off + n < Len(prev_line)
       /\ At(line, index + n) = At(prev_line, index + off + n)
    THEN IF n + 1 >= window_size
         THEN n + 1
         ELSE LookbackLength(line, prev_line, index, off, n + 1, window_size)
    ELSE n

\* window_size
WindowSize(line, index) == IF 21 < Len(line) - index THEN 21 ELSE Len(line) - index

\* lb_copy_length_a, _b, _c
LbCopyLength(line, prev_line, first_line, index, off) ==
    IF first_line THEN 0
    ELSE IF off = -1 /\ ~(index > 0) THEN 0
    ELSE IF off = 1 /\ ~(index + 1 < Len(prev_line)) THEN 0
    ELSE LookbackLength(line, prev_line, index, off, 0, WindowSize(line, index))

RECURSIVE RunLength(_, _, _)
RunLength(line, index, n) ==
    IF index + n < Len(line) /\ At(line, index + n) = At(line, index)
    THEN RunLength(line, index, n + 1)
    ELSE n

\* rle_length
RleLength(line, index) ==
    IF index + 1 > Len(line) - 1 THEN 0
    ELSE IF At(line, index + 1) # At(line, index) THEN 0
    ELSE RunLength(line, index, 0)

\* The four candidates at the current position.
M9Rle == RleLength(M9Line, m9_index)
M9Lb(off) == LbCopyLength(M9Line, M9PrevLine, M9FirstLine, m9_index, off)

\* max(compare_dict, key=compare_dict.get): the scores rle * 1.2, a, b * 1.1, c
\* (here times ten), the first key of the greatest score.
BestCompression(rle, a, b, c) ==
    LET s_rle == rle * 12
        s_a == a * 10
        s_b == b * 11
        s_c == c * 10 IN
    IF s_rle >= s_a /\ s_rle >= s_b /\ s_rle >= s_c THEN "rle"
    ELSE IF s_a >= s_b /\ s_a >= s_c THEN "lb_-1"
    ELSE IF s_b >= s_c THEN "lb_0"
    ELSE "lb_1"

M9Best == BestCompression(M9Rle, M9Lb(-1), M9Lb(0), M9Lb(1))

M9AllZero == M9Rle = 0 /\ M9Lb(-1) = 0 /\ M9Lb(0) = 0 /\ M9Lb(1) = 0

LbName(off) == CASE off = -1 -> "lb_-1" [] off = 0 -> "lb_0" [] off = 1 -> "lb_1"

\* One iteration of compress_line's loop that writes the colour alone.
compress_line_literal ==
    /\ ~M9Done
    /\ m9_index < Len(M9Line)
    /\ M9AllZero
    /\ m9_out' = Append(m9_out, find_closest_palette_index(At(M9Line, m9_index)))
    /\ m9_index' = m9_index + 1
    /\ UNCHANGED <<m9_rows, m9_y>>
    /\ UNCHANGED notM9

\* One iteration that chooses RLE.
compress_line_rle ==
    /\ ~M9Done
    /\ m9_index < Len(M9Line)
    /\ ~M9AllZero
    /\ M9Best = "rle"
    /\ LET rle_length == M9Rle
           active_colour == find_closest_palette_index(At(M9Line, m9_index)) IN
       /\ m9_out' = IF rle_length >= 6
                    THEN m9_out \o <<active_colour, RLE(6), rle_length - 6>>
                    ELSE m9_out \o <<active_colour, RLE(rle_length)>>
       /\ m9_index' = m9_index + rle_length + 1
    /\ UNCHANGED <<m9_rows, m9_y>>
    /\ UNCHANGED notM9

\* One iteration that chooses the copy from the previous line at offset off.
compress_line_copy(off) ==
    /\ ~M9Done
    /\ m9_index < Len(M9Line)
    /\ ~M9AllZero
    /\ M9Best = LbName(off)
    /\ LET lb_copy_length == M9Lb(off) IN
       /\ m9_out' = IF 1 <= lb_copy_length /\ lb_copy_length <= 5
                    THEN Append(m9_out, COPY(lb_copy_length, off))
                    ELSE m9_out \o <<COPY(6, off), lb_copy_length - 6>>
       /\ m9_index' = m9_index + (lb_copy_length - 1) + 1
    /\ UNCHANGED <<m9_rows, m9_y>>
    /\ UNCHANGED notM9

\* compress_line returns (its loop ended); compress_mode9 appends the bytes
\* and goes to the next row.
compress_line_return ==
    /\ ~M9Done
    /\ ~(m9_index < Len(M9Line))
    /\ m9_y' = m9_y + 1
    /\ m9_index' = 0
    /\ UNCHANGED <<m9_rows, m9_out>>
    /\ UNCHANGED notM9

M9Next ==
    \/ compress_line_literal
    \/ compress_line_rle
    \/ compress_line_copy(-1)
    \/ compress_line_copy(0)
    \/ compress_line_copy(1)
    \/ compress_line_return

-----------------------------------------------------------------------------
(* The scanline coder: lib/scanline.py.                                    *)

\* A row of w bytes: every byte is base, but the byte at position flip
\* (none when flip = 0).
ScanRow(w, base, flip) == [k \in 1..w |-> IF k = flip THEN 1 - base ELSE base]

ScanRowsOf(w) == {ScanRow(w, base, flip) : base \in {0, 1}, flip \in 0..w}

\* The data: one or two rows of the same width.
ScanData ==
    UNION {[1..h -> ScanRowsOf(w)] : h \in {1, 2}, w \in 1..ScanMaxWidth}

ScanInit ==
    /\ scan_rows \in ScanData
    /\ scan_i = 1
    /\ scan_out = <<>>

\* 2 ** n
RECURSIVE Pow2(_)
Pow2(n) == IF n = 0 THEN 1 ELSE 2 * Pow2(n - 1)

\* range(0, len(line_arr) - 8, 8)
ChunkStarts(n) == {i \in 0..n : i < n - 8 /\ i % 8 = 0}

\* line[a:b] (Python slice, 0-based, b exclusive)
Slice(seq, a, b) == SubSeq(seq, a + 1, b)

\* np.packbits(changes)[0]: bit k of the chunk (most significant first) is
\* set iff byte k changed; a short chunk is padded with zeros.
Flags(chunk_line, chunk_prev) ==
    SumSeq([k \in 1..Len(chunk_line) |->
               IF chunk_line[k] # chunk_prev[k] THEN Pow2(8 - k) ELSE 0])

\* chunk_line[changes]
Changed(chunk_line, chunk_prev) ==
    LET Differs(k) == chunk_line[k] # chunk_prev[k]
        RECURSIVE Pick(_)
        Pick(k) == IF k > Len(chunk_line) THEN <<>>
                   ELSE (IF Differs(k) THEN <<chunk_line[k]>> ELSE <<>>) \o Pick(k + 1) IN
    Pick(1)

RECURSIVE FirstLineChunks(_, _)
\* The first loop of the first-line branch, from chunk start i on.
FirstLineChunks(line, i) ==
    IF i \in ChunkStarts(Len(line))
    THEN <<255>> \o Slice(line, i, i + 8) \o FirstLineChunks(line, i + 8)
    ELSE <<>>

RECURSIVE NextLineChunks(_, _, _)
\* The first loop of the other branch, from chunk start i on.
NextLineChunks(line, prev_line, i) ==
    IF i \in ChunkStarts(Len(line))
    THEN LET chunk_line == Slice(line, i, i + 8)
             chunk_prev == Slice(prev_line, i, i + 8) IN
         <<Flags(chunk_line, chunk_prev)>> \o Changed(chunk_line, chunk_prev)
             \o NextLineChunks(line, prev_line, i + 8)
    ELSE <<>>

\* compress_scanline
compress_scanline(line, prev_line, first_line) ==
    LET n == Len(line)
        remaining == n % 8 IN
    IF first_line
    THEN FirstLineChunks(line, 0)
         \o (IF remaining > 0
             THEN <<(255 * Pow2(8 - remaining)) % 256>> \o Slice(line, n - remaining, n)
             ELSE <<>>)
    ELSE NextLineChunks(line, prev_line, 0)
         \o (IF remaining > 0
             THEN LET chunk_line == Slice(line, n - remaining, n)
                      chunk_prev == Slice(prev_line, Len(prev_line) - remaining,
                                          Len(prev_line)) IN
                  <<Flags(chunk_line, chunk_prev)>> \o Changed(chunk_line, chunk_prev)
             ELSE <<>>)

ScanDone == scan_i > Len(scan_rows)

\* compress_data_with_scanline: the first row
scan_first_row ==
    /\ ~ScanDone
    /\ scan_i = 1
    /\ scan_out' = scan_out \o compress_scanline(scan_rows[1], <<>>, TRUE)
    /\ scan_i' = 2
    /\ UNCHANGED scan_rows
    /\ UNCHANGED notScan

\* compress_data_with_scanline: a later row, against the row before it
scan_next_row ==
    /\ ~ScanDone
    /\ scan_i > 1
    /\ scan_out' = scan_out \o compress_scanline(scan_rows[scan_i], scan_rows[scan_i - 1], FALSE)
    /\ scan_i' = scan_i + 1
    /\ UNCHANGED scan_rows
    /\ UNCHANGED notScan

ScanNext ==
    \/ scan_first_row
    \/ scan_next_row

-----------------------------------------------------------------------------
(* A start tag with attributes: _handle_regular_tag and the functions it   *)
(* calls.  An attribute value is None (has = FALSE) or a string, kept as   *)
(* the parts urlparse sees in it: "scheme:" "//netloc" "path"; a plain     *)
(* word is a path.                                                         *)

Value(has, scheme, netloc, path) ==
    [has |-> has, scheme |-> scheme, netloc |-> netloc, path |-> path]

\* None: the value of an attribute written without one, as in <hr noshade>
None == Value(FALSE, "", "", "")
Word(w) == Value(TRUE, "", "", w)

\* The rows of SUPPORTED_ATTRIBUTES for the tags of the model; B has no row.
SUPPORTED_ATTRIBUTES ==
    [A |-> {"HREF", "NAME", "TARGET", "ONCLICK"},
     DIV |-> {"ALIGN"},
     FORM |-> {"LOCAL", "METHOD", "ACTION", "ONRESET", "ONSUBMIT"},
     HR |-> {"SIZE", "WIDTH", "NOSHADE", "ALIGN"}]

\* The rows of ALLOWED_ATTRIBUTE_VALUES for the tags of the model, keyed by
\* <<TAG, ATTRIBUTE>> for "TAG.ATTRIBUTE".
ALLOWED_ATTRIBUTE_VALUES ==
    [k \in {<<"DIV", "ALIGN">>, <<"HR", "ALIGN">>, <<"FORM", "METHOD">>} |->
        IF k = <<"FORM", "METHOD">> THEN {"GET", "POST"} ELSE {"LEFT", "CENTER", "RIGHT"}]

\* str.upper() on the attribute names and words of the model.
UpperWord(w) ==
    CASE w = "href" -> "HREF"
      [] w = "align" -> "ALIGN"
      [] w = "noshade" -> "NOSHADE"
      [] w = "action" -> "ACTION"
      [] w = "style" -> "STYLE"
      [] w = "center" -> "CENTER"
      [] w = "Center" -> "CENTER"
      [] w = "justify" -> "JUSTIFY"
      [] OTHER -> w

\* str.lower() on the schemes of the model.
LowerScheme(scheme) == IF scheme = "HTTPS" THEN "https" ELSE scheme

TagNames_In == {"a", "b", "div", "hr", "form"}

BaseUrls == {Value(TRUE, sch, "b.example", "/d/p.html") : sch \in {"http", "https"}}

\* The attributes of the model, <<name, value>> as HTMLParser hands them over
\* (names in lower case).
AttrPairs ==
    {<<"href", v>> : v \in {Value(TRUE, "", "", "x.html"),
                            Value(TRUE, "", "", "/r"),
                            Value(TRUE, "https", "s.example", "/a"),
                            Value(TRUE, "HTTPS", "s.example", "/a"),
                            Value(TRUE, "mailto", "", "x@y"),
                            None}}
    \cup {<<"align", v>> : v \in {Word("center"), Word("Center"), Word("justify"), None}}
    \cup {<<"noshade", None>>, <<"style", Word("center")>>,
          <<"action", Value(TRUE, "https", "s.example", "/a")>>}

AttrLists == UNION {[1..n -> AttrPairs] : n \in 0..MaxAttrs}

NoTagOut == [tag |-> "", attrs |-> <<>>]

TagInit ==
    /\ tag_name \in TagNames_In
    /\ tag_base \in BaseUrls
    /\ tag_input \in AttrLists
    /\ tag_attrs = tag_input
    /\ tag_pc = "start"
    /\ tag_out = NoTagOut

\* The path of urljoin(base, url) when url has no netloc of its own.
JoinPath(bpath, path) ==
    CASE path = "" -> bpath
      [] path = "/r" -> "/r"
      [] path = "x.html" /\ bpath = "/d/p.html" -> "/d/x.html"
      [] OTHER -> path

\* urllib.parse.urljoin(base, url)
urljoin(base, url) ==
    IF ~url.has \/ url = Value(TRUE, "", "", "") THEN base
    ELSE LET scheme == IF url.scheme = "" THEN base.scheme ELSE LowerScheme(url.scheme) IN
         IF scheme # base.scheme \/ scheme \notin {"http", "https", ""}
         THEN url
         ELSE IF url.netloc # ""
         THEN Value(TRUE, scheme, url.netloc, url.path)
         ELSE Value(TRUE, scheme, base.netloc, JoinPath(base.path, url.path))

\* new_url.startswith("https:") and new_url.replace("https:", "http:", 1)
ReplaceHttps(url) == IF url.scheme = "https" THEN [url EXCEPT !.scheme = "http"] ELSE url

\* _fix_link_urls
fix_link_urls(attrs, base) ==
    [k \in 1..Len(attrs) |->
        IF attrs[k][1] = "href"
        THEN <<"href", ReplaceHttps(urljoin(base, attrs[k][2]))>>
        ELSE attrs[k]]

\* _filter_attributes reaches `attr_value.upper()` with attr_value None
FilterRaises(tag, attrs) ==
    /\ Upper(tag) \in DOMAIN SUPPORTED_ATTRIBUTES
    /\ \E k \in 1..Len(attrs) :
         /\ UpperWord(attrs[k][1]) \in SUPPORTED_ATTRIBUTES[Upper(tag)]
         /\ <<Upper(tag), UpperWord(attrs[k][1])>> \in DOMAIN ALLOWED_ATTRIBUTE_VALUES
         /\ ~attrs[k][2].has

\* attr_value.upper() in ALLOWED_ATTRIBUTE_VALUES[value_key]
ValueAllowed(key, value) ==
    /\ value.scheme = "" /\ value.netloc = ""
    /\ UpperWord(value.path) \in ALLOWED_ATTRIBUTE_VALUES[key]

\* _filter_attributes, when it does not raise
filter_attributes(tag, attrs) ==
    IF Upper(tag) \notin DOMAIN SUPPORTED_ATTRIBUTES THEN <<>>
    ELSE LET allowed_attrs == SUPPORTED_ATTRIBUTES[Upper(tag)]
             Named == [k \in 1..Len(attrs) |-> <<UpperWord(attrs[k][1]), attrs[k][2]>>]
             Keep(a) ==
                 /\ a[1] \in allowed_attrs
                 /\ <<Upper(tag), a[1]>> \in DOMAIN ALLOWED_ATTRIBUTE_VALUES
                       => ValueAllowed(<<Upper(tag), a[1]>>, a[2]) IN
         SelectSeq(Named, Keep)

\* f'{x[1]}' : None is written as the word None
Str(value) == IF value.has THEN value ELSE Word("None")

\* _handle_regular_tag up to _build_tag_string: `if tag == "a"` fix the links
tag_fix_link_urls ==
    /\ tag_pc = "start"
    /\ tag_attrs' = IF tag_name = "a" THEN fix_link_urls(tag_attrs, tag_base) ELSE tag_attrs
    /\ tag_pc' = "fixed"
    /\ UNCHANGED <<tag_name, tag_base, tag_input, tag_out>>
    /\ UNCHANGED notTag

\* _build_tag_string calls _filter_attributes; an exception leaves through
\* handle_starttag, which logs and re-raises.
tag_filter_attributes ==
    /\ tag_pc = "fixed"
    /\ IF FilterRaises(tag_name, tag_attrs)
       THEN tag_pc' = "raised" /\ UNCHANGED tag_attrs
       ELSE tag_pc' = "filtered" /\ tag_attrs' = filter_attributes(tag_name, tag_attrs)
    /\ UNCHANGED <<tag_name, tag_base, tag_input, tag_out>>
    /\ UNCHANGED notTag

\* _build_tag_string: "<TAG NAME=\"value\" ...>\n"
tag_build_tag_string ==
    /\ tag_pc = "filtered"
    /\ tag_out' = [tag |-> Upper(tag_name),
                   attrs |-> [k \in 1..Len(tag_attrs) |->
                                 <<tag_attrs[k][1], Str(tag_attrs[k][2])>>]]
    /\ tag_pc' = "built"
    /\ UNCHANGED <<tag_name, tag_base, tag_input, tag_attrs>>
    /\ UNCHANGED notTag

TagNext ==
    \/ tag_fix_link_urls
    \/ tag_filter_attributes
    \/ tag_build_tag_string

-----------------------------------------------------------------------------
(* The uncompressed bitmap coders of EBDConverter: _convert_mode0,         *)
(* _convert_mode2, _convert_mode4.                                         *)

\* What getpixel returns: 0 or 255 on the "1" image of mode 0, a grey level
\* 0..255 on the inverted "L" image of modes 2 and 4.
PackPixels(mode) ==
    CASE mode = 0 -> {0, 255}
      [] mode = 2 -> {0, 63, 64, 255}
      [] mode = 4 -> {0, 8, 24, 248, 255}

\* A row of w pixels: a everywhere, b at position flip.
PackRow(w, a, b, flip) == [x \in 1..w |-> IF x = flip THEN b ELSE a]

\* The images of a mode: one row, or that row above a row of one level.
PackImages(mode) ==
    UNION {
      {<<PackRow(w, a, b, flip)>> : a \in PackPixels(mode), b \in PackPixels(mode), flip \in 1..w}
      \cup {<<PackRow(w, a, b, flip), PackRow(w, c, c, 1)>> :
               a \in PackPixels(mode), b \in PackPixels(mode), c \in PackPixels(mode),
               flip \in 1..w}
      : w \in 1..PackMaxWidth}

\* No call of the scanline coder yet.
NoScanResult == [kind |-> "none", data |-> <<>>]

PackInit ==
    /\ pack_mode \in {0, 2, 4}
    /\ pack_rows \in PackImages(pack_mode)
    /\ pack_y = 1
    /\ pack_out = <<>>
    /\ width_bytes = 0
    /\ scan_result = NoScanResult

\* _divide_chunks(l, n)
RECURSIVE divide_chunks(_, _)
divide_chunks(l, n) ==
    IF l = <<>> THEN <<>>
    ELSE IF Len(l) <= n THEN <<l>>
    ELSE <<SubSeq(l, 1, n)>> \o divide_chunks(SubSeq(l, n + 1, Len(l)), n)

\* reversed(chunk)
Reversed(chunk) == [k \in 1..Len(chunk) |-> chunk[Len(chunk) + 1 - k]]

\* _convert_mode0, one chunk: a BitArray of eight zero bits, bit `index`
\* (from the left) set to `not pixel`.
Mode0Byte(chunk) ==
    SumSeq([k \in 1..Len(chunk) |-> IF chunk[k] = 0 THEN Pow2(8 - k) ELSE 0])

\* _convert_mode2, one chunk:
\* for i, val in enumerate(reversed(chunk)): byte |= floor(val / 64) << (i * 2)
Mode2Byte(chunk) ==
    SumSeq([k \in 1..Len(chunk) |-> (Reversed(chunk)[k] \div 64) * Pow2((k - 1) * 2)])

\* min(15, round(v / 16))
Nibble(v) == IF RoundDiv(v, 16) < 15 THEN RoundDiv(v, 16) ELSE 15

\* _convert_mode4, one chunk: (val1 << 4) | val2
Mode4Byte(chunk) ==
    Nibble(chunk[1]) * 16 + (IF Len(chunk) < 2 THEN 0 ELSE Nibble(chunk[2]))

\* The bytes of one row.
PackedRow(mode, row) ==
    CASE mode = 0 -> [k \in 1..Len(divide_chunks(row, 8)) |-> Mode0Byte(divide_chunks(row, 8)[k])]
      [] mode = 2 -> [k \in 1..Len(divide_chunks(row, 4)) |-> Mode2Byte(divide_chunks(row, 4)[k])]
      [] mode = 4 -> [k \in 1..Len(divide_chunks(row, 2)) |-> Mode4Byte(divide_chunks(row, 2)[k])]

PackDone == pack_y > Len(pack_rows)

\* One pass of `for y in range(0, self.image.height)` in _convert_mode0
convert_mode0_row ==
    /\ pack_mode = 0
    /\ ~PackDone
    /\ pack_out' = pack_out \o PackedRow(0, pack_rows[pack_y])
    /\ pack_y' = pack_y + 1
    /\ UNCHANGED <<pack_mode, pack_rows, width_bytes, scan_result>>
    /\ UNCHANGED notPack

\* One pass of the row loop in _convert_mode2
convert_mode2_row ==
    /\ pack_mode = 2
    /\ ~PackDone
    /\ pack_out' = pack_out \o PackedRow(2, pack_rows[pack_y])
    /\ pack_y' = pack_y + 1
    /\ UNCHANGED <<pack_mode, pack_rows, width_bytes, scan_result>>
    /\ UNCHANGED notPack

\* One pass of the row loop in _convert_mode4
convert_mode4_row ==
    /\ pack_mode = 4
    /\ ~PackDone
    /\ pack_out' = pack_out \o PackedRow(4, pack_rows[pack_y])
    /\ pack_y' = pack_y + 1
    /\ UNCHANGED <<pack_mode, pack_rows, width_bytes, scan_result>>
    /\ UNCHANGED notPack

\* data_arr.reshape(-1, width) succeeds: the data is a whole number of rows
\* of `width` bytes (numpy raises ValueError otherwise).
Reshapes(data, width) == Len(data) % width = 0

\* data_arr.reshape(-1, width)
reshape(data, width) ==
    [i \in 1..(Len(data) \div width) |-> SubSeq(data, (i - 1) * width + 1, i * width)]

\* compress_data_with_scanline(data, width)
compress_data_with_scanline(data, width) ==
    LET rows == reshape(data, width)
        RECURSIVE From(_)
        From(i) == IF i > Len(rows) THEN <<>>
                   ELSE compress_scanline(rows[i], rows[i - 1], FALSE) \o From(i + 1) IN
    compress_scanline(rows[1], <<>>, TRUE) \o From(2)

\* The tail of _convert_mode1/3/5: the uncompressed coder has returned its
\* bytes, and they go to the scanline coder with the row width width.
ScanlineCall(width) ==
    /\ PackDone
    /\ width_bytes = 0
    /\ width_bytes' = width
    /\ scan_result' = IF Reshapes(pack_out, width)
                      THEN [kind |-> "bytes", data |-> compress_data_with_scanline(pack_out, width)]
                      ELSE [kind |-> "ValueError", data |-> <<>>]
    /\ UNCHANGED <<pack_mode, pack_rows, pack_y, pack_out>>
    /\ UNCHANGED notPack

\* _convert_mode1: width_bytes = math.ceil(self.image.width / 2)
convert_mode1 ==
    /\ pack_mode = 0
    /\ ScanlineCall(CeilDiv(Len(pack_rows[1]), 2))

\* _convert_mode3: width_bytes = math.ceil(self.image.width / 2)
convert_mode3 ==
    /\ pack_mode = 2
    /\ ScanlineCall(CeilDiv(Len(pack_rows[1]), 2))

\* _convert_mode5: width_bytes = math.ceil(self.image.width / 4)
convert_mode5 ==
    /\ pack_mode = 4
    /\ ScanlineCall(CeilDiv(Len(pack_rows[1]), 4))

PackNext ==
    \/ convert_mode0_row
    \/ convert_mode2_row
    \/ convert_mode4_row
    \/ convert_mode1
    \/ convert_mode3
    \/ convert_mode5

-----------------------------------------------------------------------------
(* Quantization: lib/color_matching.py and lib/dithering.py, one pixel.    *)

\* len(PALETTE)
PaletteSize == 231

\* GRAY_PALETTE_LAB_2BIT and GRAY_PALETTE_LAB_4BIT: the L values of
\* create_gray_palette(4) and create_gray_palette(16) taken through
\* rgb_to_lab_vectorized, in hundredths.
GRAY_PALETTE_LAB_2BIT == <<0, 2639, 5504, 6594>>
GRAY_PALETTE_LAB_4BIT ==
    <<0, 423, 921, 1494, 2067, 2639, 3212, 3785, 4358, 4931, 5504, 5957, 6095, 6247,
      6414, 6594>>

\* np.argmin over d[0..n-1]: the first index of the least value.
ArgMin(d(_), n) ==
    CHOOSE i \in 0..(n - 1) :
        /\ \A j \in 0..(n - 1) : d(i) <= d(j)
        /\ \A j \in 0..(i - 1) : d(j) > d(i)

Abs(x) == IF x < 0 THEN 0 - x ELSE x

\* np.clip(x, 0, 255)
Clip(x) == IF x < 0 THEN 0 ELSE IF x > 255 THEN 255 ELSE x

\* The squared Lab distances of a pixel to the palette entries are floating
\* point; the model takes them as given, least at `best` and, tied with it,
\* at `tie`.
Distances == {[best |-> b, tie |-> t] : b \in 0..(PaletteSize - 1), t \in {0, PaletteSize - 1}}
NoDist == [best |-> 0, tie |-> 0]

\* What is added to a pixel before it is quantized: the diffused error of
\* Floyd-Steinberg, or threshold * 32 - 16 of the ordered ditherer.
DitherBias == {0 - 16, 14}

QuantInit ==
    /\ q_fn \in {"color", "gray", "mode2", "mode4"}
    /\ q_pixel \in 0..255
    /\ q_levels \in (IF q_fn = "gray" THEN {2, 4, 8, 16} ELSE {0})
    /\ q_dist \in (IF q_fn = "color"
                   THEN {d \in Distances : q_pixel \in {0, 255}}
                   ELSE {NoDist})
    /\ q_pc = "start"
    /\ q_out = [kind |-> "none", index |-> 0]

\* quantized = ((levels - 1) - indices) + 1: an inversion that is one off
Inverted_OffByOne(levels, index) == levels - index

\* quantized = (levels - 1) - indices
Inverted(levels, index) == (levels - 1) - index

\* find_closest_gray on a grey level (not RGB): the index it returns
ClosestGray(pixel, levels) ==
    LET l == (pixel * 10000) \div 255
        gray_palette_lab == IF levels = 4 THEN GRAY_PALETTE_LAB_2BIT ELSE GRAY_PALETTE_LAB_4BIT
        diffs(i) == Abs(l - gray_palette_lab[i + 1]) IN
    Inverted(levels, ArgMin(diffs, levels))

\* apply_floyd_steinberg_dithering / apply_ordered_dithering up to the call
\* of find_closest_color_fn: np.clip(data + bias, 0, 255)
apply_dithering(bias) ==
    /\ q_pc = "start"
    /\ q_fn \in {"color", "gray"}
    /\ q_pixel' = Clip(q_pixel + bias)
    /\ q_pc' = "dithered"
    /\ UNCHANGED <<q_fn, q_levels, q_dist, q_out>>
    /\ UNCHANGED notQuant

\* find_closest_color: indices = np.argmin(distances, axis=1)
find_closest_color ==
    /\ q_pc \in {"start", "dithered"}
    /\ q_fn = "color"
    /\ LET distances(i) == IF i \in {q_dist.best, q_dist.tie} THEN 0 ELSE 1 IN
       q_out' = [kind |-> "index", index |-> ArgMin(distances, PaletteSize)]
    /\ q_pc' = "done"
    /\ UNCHANGED <<q_fn, q_levels, q_pixel, q_dist>>
    /\ UNCHANGED notQuant

\* find_closest_gray
find_closest_gray ==
    /\ q_pc \in {"start", "dithered"}
    /\ q_fn = "gray"
    /\ q_out' = IF q_levels \in {4, 16}
                THEN [kind |-> "index", index |-> ClosestGray(q_pixel, q_levels)]
                ELSE [kind |-> "ValueError", index |-> 0]
    /\ q_pc' = "done"
    /\ UNCHANGED <<q_fn, q_levels, q_pixel, q_dist>>
    /\ UNCHANGED notQuant

\* _convert_mode2: the level packed for a pixel, math.floor(val / 64)
convert_mode2_level ==
    /\ q_pc = "start"
    /\ q_fn = "mode2"
    /\ q_out' = [kind |-> "index", index |-> q_pixel \div 64]
    /\ q_pc' = "done"
    /\ UNCHANGED <<q_fn, q_levels, q_pixel, q_dist>>
    /\ UNCHANGED notQuant

\* _convert_mode4: the level packed for a pixel, min(15, round(val / 16))
convert_mode4_level ==
    /\ q_pc = "start"
    /\ q_fn = "mode4"
    /\ q_out' = [kind |-> "index", index |-> Nibble(q_pixel)]
    /\ q_pc' = "done"
    /\ UNCHANGED <<q_fn, q_levels, q_pixel, q_dist>>
    /\ UNCHANGED notQuant

QuantNext ==
    \/ \E bias \in DitherBias : apply_dithering(bias)
    \/ find_closest_color
    \/ find_closest_gray
    \/ convert_mode2_level
    \/ convert_mode4_level

-----------------------------------------------------------------------------
(* The request handler: XiinoDataServer.handle_request (dataserver.py).    *)

\* What URL_REGEX, validate_url, urlparse and mimetypes make of the request
\* line: no match, a URL that is not http, the internal pages about.xiino,
\* device.xiino and any other .xiino host, an image URL, an SVG URL, or any
\* other external URL.
UrlKinds == {"no_match", "invalid", "about", "device", "credits", "image", "svg", "html"}

\* Content-Length against MAX_REQUEST_SIZE (or not a number), the rate
\* limiter's verdict, the URL, and the digits GSCALE_DEPTH_REGEX captures
\* (none, the empty string of "/g/", or "4").
ServerRequests ==
    [content_length : {"ok", "too_large", "malformed"},
     rate_limited : BOOLEAN,
     url : UrlKinds,
     gscale : {"absent", "empty", "4"}]

NoRequest == [content_length |-> "ok", rate_limited |-> FALSE, url |-> "none", gscale |-> "absent"]

ServerInit ==
    /\ request \in ServerRequests
    /\ srv_pc = "start"
    /\ headers_sent = FALSE
    /\ wfile = <<>>
    /\ raised = <<>>

\* self.page_controller.handle_page(page): handle_page is `async def` and
\* handle_request calls it without await, so page_content is a coroutine
\* object and not the rendered text.
handle_page(name) == [type |-> "coroutine", text |-> name]

\* page_content.encode(...) exists for a str only; on a coroutine object it
\* raises AttributeError.
HasEncode(content) == content.type = "str"

\* self.wfile.write(bytes([0x00] * 12)); self.wfile.write(bytes([0x0D, 0x0A] * 2))
FRAME_PREFIX == <<"00 x 12", "0D 0A 0D 0A">>

\* The three writes of a page: the two of the prefix, then
\* self.wfile.write(page_content.encode(...)), whose argument is evaluated
\* after the first two writes are done.
WritePage(w, content) ==
    IF HasEncode(content) THEN w \o FRAME_PREFIX \o <<content.text>> ELSE w \o FRAME_PREFIX

\* The page handle_request asks for on the paths that fetch nothing.
PageOf(url) ==
    CASE url \in {"no_match", "invalid"} -> "not-found"
      [] url = "about" -> "home"
      [] OTHER -> url

\* send_headers_if_needed, then a page written; where control goes when the
\* encode raises.
ServePage(name, handler) ==
    /\ headers_sent' = TRUE
    /\ wfile' = WritePage(wfile, handle_page(name))
    /\ IF HasEncode(handle_page(name))
       THEN srv_pc' = "done" /\ UNCHANGED raised
       ELSE srv_pc' = handler /\ raised' = Append(raised, "AttributeError")

\* handle_request up to `try:`: int(Content-Length), the size check and the
\* rate limit, each answered with send_error and a return.
handle_request_admit ==
    /\ srv_pc = "start"
    /\ CASE request.content_length = "malformed" ->
                /\ srv_pc' = "raised"
                /\ raised' = Append(raised, "ValueError")
                /\ UNCHANGED wfile
         [] request.content_length = "too_large" ->
                /\ srv_pc' = "done"
                /\ wfile' = Append(wfile, "send_error 413")
                /\ UNCHANGED raised
         [] request.content_length = "ok" /\ request.rate_limited ->
                /\ srv_pc' = "done"
                /\ wfile' = Append(wfile, "send_error 429")
                /\ UNCHANGED raised
         [] OTHER ->
                /\ srv_pc' = "route"
                /\ UNCHANGED <<wfile, raised>>
    /\ UNCHANGED <<request, headers_sent>>
    /\ UNCHANGED notServer

\* No URL, an invalid URL, or a .xiino page: the page is written.
handle_request_page ==
    /\ srv_pc = "route"
    /\ request.url \in {"no_match", "invalid", "about", "device", "credits"}
    /\ ServePage(PageOf(request.url), "outer_except")
    /\ UNCHANGED request
    /\ UNCHANGED notServer

\* An external URL: fetch_binary / fetch, which returns or raises.
handle_request_fetch(outcome) ==
    /\ srv_pc = "route"
    /\ request.url \in {"image", "svg", "html"}
    /\ CASE outcome = "ok" ->
                /\ srv_pc' = IF request.url = "html" THEN "compose" ELSE "convert"
                /\ UNCHANGED raised
         [] outcome = "ContentTooLargeError" ->
                /\ srv_pc' = "too_large_except"
                /\ raised' = Append(raised, outcome)
         [] OTHER ->
                /\ srv_pc' = "inner_except"
                /\ raised' = Append(raised, outcome)
    /\ UNCHANGED <<request, headers_sent, wfile>>
    /\ UNCHANGED notServer

\* The direct image request after the fetch: the converter, int() of the
\* requested depth, the conversion, and the image page written.
handle_request_image(outcome) ==
    /\ srv_pc = "convert"
    /\ request.gscale = "empty" => outcome = "ValueError"
    /\ IF outcome = "ok"
       THEN ServePage("image", "inner_except")
       ELSE /\ srv_pc' = "inner_except"
            /\ raised' = Append(raised, outcome)
            /\ UNCHANGED <<headers_sent, wfile>>
    /\ UNCHANGED request
    /\ UNCHANGED notServer

\* The page request after the fetch: send_headers_if_needed, int() of the
\* requested depth, feed_async and get_parsed_data, and clean_html written.
handle_request_html(outcome) ==
    /\ srv_pc = "compose"
    /\ request.gscale = "empty" => outcome = "ValueError"
    /\ headers_sent' = TRUE
    /\ CASE outcome = "ok" ->
                /\ wfile' = wfile \o FRAME_PREFIX \o <<"clean_html">>
                /\ srv_pc' = "done"
                /\ UNCHANGED raised
         [] outcome = "ContentTooLargeError" ->
                /\ srv_pc' = "too_large_except"
                /\ raised' = Append(raised, outcome)
                /\ UNCHANGED wfile
         [] OTHER ->
                /\ srv_pc' = "inner_except"
                /\ raised' = Append(raised, outcome)
                /\ UNCHANGED wfile
    /\ UNCHANGED request
    /\ UNCHANGED notServer

\* except ContentTooLargeError:
except_ContentTooLargeError ==
    /\ srv_pc = "too_large_except"
    /\ ServePage("page_too_large", "inner_except")
    /\ UNCHANGED request
    /\ UNCHANGED notServer

\* The inner `except Exception as e:`, around the external URL.
except_Exception_inner ==
    /\ srv_pc = "inner_except"
    /\ ServePage("not-found", "outer_except")
    /\ UNCHANGED request
    /\ UNCHANGED notServer

\* The outer `except Exception as e:` and its try block.
except_Exception_outer ==
    /\ srv_pc = "outer_except"
    /\ ServePage("not-found", "last_resort")
    /\ UNCHANGED request
    /\ UNCHANGED notServer

\* The bare `except:`, last resort.
except_last_resort ==
    /\ srv_pc = "last_resort"
    /\ headers_sent' = TRUE
    /\ wfile' = wfile \o FRAME_PREFIX \o <<"Internal Server Error">>
    /\ srv_pc' = "done"
    /\ UNCHANGED <<request, raised>>
    /\ UNCHANGED notServer

ServerNext ==
    \/ handle_request_admit
    \/ handle_request_page
    \/ \E outcome \in {"ok", "ContentTooLargeError", "ClientError"} : handle_request_fetch(outcome)
    \/ \E outcome \in {"ok", "ValueError"} : handle_request_image(outcome)
    \/ \E outcome \in {"ok", "ContentTooLargeError", "ValueError"} : handle_request_html(outcome)
    \/ except_ContentTooLargeError
    \/ except_Exception_inner
    \/ except_Exception_outer
    \/ except_last_resort

-----------------------------------------------------------------------------
(* Cookies: lib/cookie_manager.py.                                         *)

\* The values of the model, by what they are made of: `plain` characters that
\* SimpleCookie writes as they are, and `escaped` characters (";", ",", a
\* byte above 0x7F) that it writes as a backslash and three octal digits
\* inside double quotes.  Each takes one byte in cookie_size.
CookieValues ==
    {[plain |-> 1, escaped |-> 0],
     [plain |-> MAX_COOKIE_SIZE - 2, escaped |-> 0],
     [plain |-> MAX_COOKIE_SIZE - 1, escaped |-> 0],
     [plain |-> MAX_COOKIE_SIZE - 3, escaped |-> 1]}

\* Cookie names, one character each; "{" is not a legal key.
CookieNames == {"a", "b", "c", "{"}

IsLegalKey(name) == name # "{"

Cookies == [name : CookieNames, value : CookieValues]

\* The names of a sequence of cookies are all different.
DistinctNames(cs) == \A i, j \in 1..Len(cs) : cs[i].name = cs[j].name => i = j

\* The Cookie header of the Palm client, item by item, and the cookies of an
\* upstream response (a dict, whose keys aiohttp has parsed: all legal).
CookieInputs(fn) ==
    {cs \in UNION {[1..n -> Cookies] : n \in 0..MaxCookies} :
        /\ DistinctNames(cs)
        /\ fn = "response" => \A i \in 1..Len(cs) : IsLegalKey(cs[i].name)}

CookieInit ==
    /\ ck_fn \in {"request", "response"}
    /\ ck_input \in CookieInputs(ck_fn)
    /\ ck_cookies = <<>>
    /\ ck_i = 1
    /\ ck_out = <<>>
    /\ ck_pc = "start"

\* cookie_size: len(f"{cookie.key}={cookie.value}".encode())
cookie_size(cookie) == 1 + 1 + cookie.value.plain + cookie.value.escaped

\* len of cookie.output(header="").strip(): key, "=", and the coded value,
\* which is the value itself when all its characters are legal and else the
\* value in double quotes with four bytes for every escaped character.
OutputLen(cookie) ==
    1 + 1 + (IF cookie.value.escaped = 0
             THEN cookie.value.plain
             ELSE 2 + cookie.value.plain + 4 * cookie.value.escaped)

\* validate_cookie
validate_cookie(cookie, existing_domain_cookies) ==
    /\ cookie_size(cookie) <= MAX_COOKIE_SIZE
    /\ existing_domain_cookies < MAX_COOKIES_PER_SITE

\* parse_cookie_header: SimpleCookie.load raises CookieError on an illegal
\* key and `except Exception` returns an empty SimpleCookie.
parse_cookie_header ==
    /\ ck_pc = "start"
    /\ ck_fn = "request"
    /\ ck_cookies' = IF \A i \in 1..Len(ck_input) : IsLegalKey(ck_input[i].name)
                     THEN ck_input ELSE <<>>
    /\ ck_pc' = "loop"
    /\ UNCHANGED <<ck_fn, ck_input, ck_i, ck_out>>
    /\ UNCHANGED notCookie

\* prepare_response_cookies up to its loop
response_cookies_items ==
    /\ ck_pc = "start"
    /\ ck_fn = "response"
    /\ ck_cookies' = ck_input
    /\ ck_pc' = "loop"
    /\ UNCHANGED <<ck_fn, ck_input, ck_i, ck_out>>
    /\ UNCHANGED notCookie

\* One iteration of the loop of prepare_request_cookies /
\* prepare_response_cookies; domain_cookie_count is the length of what has
\* been collected.  What is returned per cookie: key and value of the dict
\* entry, or the Set-Cookie text.
prepare_cookies_step ==
    /\ ck_pc = "loop"
    /\ ck_i <= Len(ck_cookies)
    /\ Len(ck_out) < MAX_COOKIES_PER_SITE
    /\ LET cookie == ck_cookies[ck_i] IN
       ck_out' = IF validate_cookie(cookie, Len(ck_out))
                 THEN Append(ck_out,
                        [name |-> cookie.name,
                         size |-> IF ck_fn = "request" THEN cookie_size(cookie)
                                  ELSE OutputLen(cookie)])
                 ELSE ck_out
    /\ ck_i' = ck_i + 1
    /\ UNCHANGED <<ck_fn, ck_input, ck_cookies, ck_pc>>
    /\ UNCHANGED notCookie

\* The loop ends: `break` at the per-site limit, or no cookie is left.
prepare_cookies_return ==
    /\ ck_pc = "loop"
    /\ ck_i > Len(ck_cookies) \/ Len(ck_out) >= MAX_COOKIES_PER_SITE
    /\ ck_pc' = "done"
    /\ UNCHANGED <<ck_fn, ck_input, ck_cookies, ck_i, ck_out>>
    /\ UNCHANGED notCookie

CookieNext ==
    \/ parse_cookie_header
    \/ response_cookies_items
    \/ prepare_cookies_step
    \/ prepare_cookies_return

-----------------------------------------------------------------------------
(* Dithering: lib/dithering.py, and the colour conversion that is said to  *)
(* use it (EBDConverter.convert_colour, mode9.compress_mode9).  Images are *)
(* grey, the palette is reduced to black and white; pixel values and       *)
(* errors are kept in 256ths so that the 16ths of the error shares of up   *)
(* to two rows are whole numbers.                                          *)

Unit == 16 * 16

DthPixels == {0, 100, 140, 255}
DthHeights == {1, 2}

DthImages ==
    UNION {[1..h -> [1..w -> DthPixels]] : h \in DthHeights, w \in 1..DthMaxWidth}

\* The black and the white entry of the palette.
DthPalette == <<0, 255>>

\* BAYER_MATRIX_4x4, in 16ths
BAYER_MATRIX_4x4 ==
    <<<<0, 8, 2, 10>>, <<12, 4, 14, 6>>, <<3, 11, 1, 9>>, <<15, 7, 13, 5>>>>

\* np.clip(v, 0, 255), v in 256ths
Clip255(v) == IF v < 0 THEN 0 ELSE IF v > 255 * Unit THEN 255 * Unit ELSE v

\* find_closest_color_fn for the two-entry palette: np.argmin, the first of
\* two equal distances; index 1 is white.
ClosestIndex(v) == IF 2 * v <= 255 * Unit THEN 0 ELSE 1

\* errors = pixels - selected_colors
QuantError(v) == v - DthPalette[ClosestIndex(v) + 1] * Unit

Zeros(h, w) == [y \in 1..h |-> [x \in 1..w |-> 0]]

DthHeight == Len(dth_data)
DthWidth == Len(dth_data[1])

DitherInit ==
    /\ dth_data \in DthImages
    /\ dth_priority \in {"quality", "performance"}
    /\ dth_pc = "start"
    /\ dth_y = 1
    /\ error_buffer = Zeros(DthHeight, DthWidth)
    /\ row_with_error = Zeros(DthHeight, DthWidth)
    /\ quant_errors = Zeros(DthHeight, DthWidth)
    /\ dth_indices = <<>>
    /\ enc_indices = <<>>

\* apply_dithering with priority None: os.environ.get('IMAGE_DITHER_PRIORITY',
\* 'quality') selects the ditherer.
apply_dithering_select ==
    /\ dth_pc = "start"
    /\ dth_pc' = IF dth_priority = "performance" THEN "ordered" ELSE "floyd_steinberg"
    /\ UNCHANGED <<dth_data, dth_priority, dth_y, error_buffer, row_with_error,
                   quant_errors, dth_indices, enc_indices>>
    /\ UNCHANGED notDither

\* The share of the residual at column x that the code adds to a target, or
\* 0 when x is outside the row.
Share(q, x, k) == IF x \in 1..Len(q) THEN (q[x] * k) \div 16 ELSE 0

\* One iteration of apply_floyd_steinberg_dithering's loop over the rows: the
\* whole row is clipped and quantized at once, then the errors are spread
\* (`if y < height - 1`).
floyd_steinberg_row ==
    /\ dth_pc = "floyd_steinberg"
    /\ dth_y <= DthHeight
    /\ LET y == dth_y
           with_error == [x \in 1..DthWidth |->
                             Clip255(dth_data[y][x] * Unit + error_buffer[y][x])]
           q == [x \in 1..DthWidth |-> QuantError(with_error[x])] IN
       /\ row_with_error' = [row_with_error EXCEPT ![y] = with_error]
       /\ quant_errors' = [quant_errors EXCEPT ![y] = q]
       /\ dth_indices' = Append(dth_indices,
                                [x \in 1..DthWidth |-> ClosestIndex(with_error[x])])
       /\ error_buffer' =
            IF y < DthHeight
            THEN [error_buffer EXCEPT
                    ![y] = [x \in 1..DthWidth |-> @[x] + Share(q, x - 1, 7)],
                    ![y + 1] = [x \in 1..DthWidth |->
                                   @[x] + (IF x < DthWidth THEN Share(q, x + 1, 3) ELSE 0)
                                        + Share(q, x, 5)
                                        + (IF DthWidth > 1 THEN Share(q, x - 1, 1) ELSE 0)]]
            ELSE error_buffer
    /\ dth_y' = dth_y + 1
    /\ dth_pc' = IF dth_y = DthHeight THEN "dithered" ELSE dth_pc
    /\ UNCHANGED <<dth_data, dth_priority, enc_indices>>
    /\ UNCHANGED notDither

\* apply_ordered_dithering: data + threshold_map * 32 - 16, clipped, then
\* quantized all at once.
apply_ordered_dithering ==
    /\ dth_pc = "ordered"
    /\ LET threshold(y, x) == BAYER_MATRIX_4x4[((y - 1) % 4) + 1][((x - 1) % 4) + 1]
           with_threshold == [y \in 1..DthHeight |-> [x \in 1..DthWidth |->
               Clip255((dth_data[y][x] - 16) * Unit + threshold(y, x) * 2 * Unit)]] IN
       /\ row_with_error' = with_threshold
       /\ dth_indices' = [y \in 1..DthHeight |-> [x \in 1..DthWidth |->
                             ClosestIndex(with_threshold[y][x])]]
       /\ quant_errors' = [y \in 1..DthHeight |-> [x \in 1..DthWidth |->
                             QuantError(with_threshold[y][x])]]
    /\ dth_y' = DthHeight + 1
    /\ dth_pc' = "dithered"
    /\ UNCHANGED <<dth_data, dth_priority, error_buffer, enc_indices>>
    /\ UNCHANGED notDither

\* EBDConverter.convert_colour(compressed=True) on the same image:
\* mode9.compress_mode9(self.image).  Its own error diffusion computes an
\* index per pixel and drops it (`row_data.append(pixel)`), and compress_line
\* encodes find_closest_palette_index(pixel) of the source pixel; neither
\* apply_dithering nor IMAGE_DITHER_PRIORITY is used.
convert_colour ==
    /\ enc_indices = <<>>
    /\ enc_indices' = [y \in 1..DthHeight |-> [x \in 1..DthWidth |->
                          ClosestIndex(dth_data[y][x] * Unit)]]
    /\ UNCHANGED <<dth_data, dth_priority, dth_pc, dth_y, error_buffer, row_with_error,
                   quant_errors, dth_indices>>
    /\ UNCHANGED notDither

DitherNext ==
    \/ apply_dithering_select
    \/ floyd_steinberg_row
    \/ apply_ordered_dithering
    \/ convert_colour

-----------------------------------------------------------------------------
(* The palette of lib/dithering.py: the module global PALETTE_ARRAY that   *)
(* apply_dithering binds and the two ditherers read, under calls made from *)
(* two threads.  A palette is kept by its name.                            *)

DitherThreads == {1, 2}

\* The palette_array argument of apply_dithering: None, or a palette of the
\* caller's.
PaletteArgs == {"None", "custom"}

\* The calls: apply_dithering with its arguments, or one of the ditherers
\* called directly, on an image of some height.
DitherCalls ==
    [entry : {"apply_dithering"}, palette_array : PaletteArgs,
     priority : {"quality", "performance"}, height : 1..PalMaxHeight,
     pc : {"called"}, y : {0}, used : {<<>>}]
    \cup
    [entry : {"apply_floyd_steinberg_dithering", "apply_ordered_dithering"},
     palette_array : {"None"}, priority : {"quality"}, height : 1..PalMaxHeight,
     pc : {"called"}, y : {0}, used : {<<>>}]

\* The module as imported: it has no binding of PALETTE_ARRAY.
PaletteInit ==
    /\ PALETTE_ARRAY = "unbound"
    /\ dcall \in [DitherThreads -> DitherCalls]

\* The palette of a call of apply_dithering:
\* if palette_array is None: palette_array = np.array(PALETTE, ...)
CallPalette(c) == IF c.palette_array = "None" THEN "PALETTE" ELSE c.palette_array

\* apply_dithering up to its call of a ditherer: it binds the global and
\* chooses the ditherer.
apply_dithering_bind(t) ==
    /\ dcall[t].pc = "called"
    /\ dcall[t].entry = "apply_dithering"
    /\ PALETTE_ARRAY' = CallPalette(dcall[t])
    /\ dcall' = [dcall EXCEPT ![t].pc = IF dcall[t].priority = "performance"
                                         THEN "apply_ordered_dithering"
                                         ELSE "apply_floyd_steinberg_dithering"]
    /\ UNCHANGED notPalette

\* A ditherer called directly starts.
ditherer_called(t) ==
    /\ dcall[t].pc = "called"
    /\ dcall[t].entry # "apply_dithering"
    /\ dcall' = [dcall EXCEPT ![t].pc = dcall[t].entry]
    /\ UNCHANGED PALETTE_ARRAY
    /\ UNCHANGED notPalette

\* A read of the global: the palette bound at that moment, or NameError.
ReadPalette(t, next_pc, next_y) ==
    /\ dcall' = IF PALETTE_ARRAY = "unbound"
                THEN [dcall EXCEPT ![t].pc = "NameError"]
                ELSE [dcall EXCEPT ![t].pc = next_pc, ![t].y = next_y,
                                   ![t].used = Append(@, PALETTE_ARRAY)]
    /\ UNCHANGED PALETTE_ARRAY
    /\ UNCHANGED notPalette

\* One row of apply_floyd_steinberg_dithering:
\* selected_colors = PALETTE_ARRAY[row_indices]
floyd_steinberg_read(t) ==
    /\ dcall[t].pc = "apply_floyd_steinberg_dithering"
    /\ dcall[t].y < dcall[t].height
    /\ ReadPalette(t, dcall[t].pc, dcall[t].y + 1)

\* apply_floyd_steinberg_dithering returns after its last row.
floyd_steinberg_return(t) ==
    /\ dcall[t].pc = "apply_floyd_steinberg_dithering"
    /\ dcall[t].y = dcall[t].height
    /\ dcall' = [dcall EXCEPT ![t].pc = "returned"]
    /\ UNCHANGED PALETTE_ARRAY
    /\ UNCHANGED notPalette

\* apply_ordered_dithering: PALETTE_ARRAY[indices.flatten()], once for the
\* whole image, and the return.
ordered_read(t) ==
    /\ dcall[t].pc = "apply_ordered_dithering"
    /\ ReadPalette(t, "returned", dcall[t].height)

PaletteNext ==
    \E t \in DitherThreads :
        \/ apply_dithering_bind(t)
        \/ ditherer_called(t)
        \/ floyd_steinberg_read(t)
        \/ floyd_steinberg_return(t)
        \/ ordered_read(t)

-----------------------------------------------------------------------------
(* The rate limiter: XiinoDataServer.check_rate_limit (dataserver.py) over *)
(* the module dictionary REQUEST_TRACKING, run by the handler threads of   *)
(* ThreadedHTTPServer.  Time is in whole ticks; the 60 seconds and the 60  *)
(* requests of the code are scaled down.                                   *)

HandlerThreads == {1, 2}
ClientIps == {"10.0.0.1", "10.0.0.2"}

\* A thread between two requests.
NoCheck == [pc |-> "none", client_ip |-> "", current_time |-> 0, kept |-> <<>>]

\* REQUEST_TRACKING = {}
RateInit ==
    /\ REQUEST_TRACKING = <<>>
    /\ rate_call = [t \in HandlerThreads |-> NoCheck]
    /\ admitted = <<>>
    /\ now = 0
    /\ requests = 0

\* REQUEST_TRACKING.get(client_ip, [])
TrackingGet(client_ip) ==
    IF client_ip \in DOMAIN REQUEST_TRACKING THEN REQUEST_TRACKING[client_ip] ELSE <<>>

\* REQUEST_TRACKING[client_ip] = value
TrackingSet(client_ip, value) ==
    [ip \in (DOMAIN REQUEST_TRACKING) \cup {client_ip} |->
        IF ip = client_ip THEN value ELSE REQUEST_TRACKING[ip]]

\* [t for t in list if current_time - t < 60]
Recent(list, current_time) ==
    LET Keep(t) == current_time - t < RateWindow IN SelectSeq(list, Keep)

\* time.time() moves on.
clock_tick ==
    /\ now < MaxTime
    /\ now' = now + 1
    /\ UNCHANGED <<REQUEST_TRACKING, rate_call, admitted, requests>>
    /\ UNCHANGED notRate

\* A handler thread enters check_rate_limit for a request of client_ip: it
\* reads the time and evaluates the list comprehension over the list the
\* dictionary holds now.
check_rate_limit_clean(t, client_ip) ==
    /\ rate_call[t].pc = "none"
    /\ requests < MaxRequests
    /\ requests' = requests + 1
    /\ rate_call' = [rate_call EXCEPT ![t] =
           [pc |-> "store", client_ip |-> client_ip, current_time |-> now,
            kept |-> Recent(TrackingGet(client_ip), now)]]
    /\ UNCHANGED <<REQUEST_TRACKING, admitted, now>>
    /\ UNCHANGED notRate

\* REQUEST_TRACKING[client_ip] = <the comprehension's list>
check_rate_limit_store(t) ==
    /\ rate_call[t].pc = "store"
    /\ REQUEST_TRACKING' = TrackingSet(rate_call[t].client_ip, rate_call[t].kept)
    /\ rate_call' = [rate_call EXCEPT ![t].pc = "check"]
    /\ UNCHANGED <<admitted, now, requests>>
    /\ UNCHANGED notRate

\* if len(REQUEST_TRACKING.get(client_ip, [])) >= MAX_REQUESTS_PER_MIN:
\*     return True
check_rate_limit_check(t) ==
    /\ rate_call[t].pc = "check"
    /\ rate_call' = IF Len(TrackingGet(rate_call[t].client_ip)) >= MAX_REQUESTS_PER_MIN
                    THEN [rate_call EXCEPT ![t] = NoCheck]
                    ELSE [rate_call EXCEPT ![t].pc = "append"]
    /\ UNCHANGED <<REQUEST_TRACKING, admitted, now, requests>>
    /\ UNCHANGED notRate

\* if client_ip not in REQUEST_TRACKING: REQUEST_TRACKING[client_ip] = []
\* REQUEST_TRACKING[client_ip].append(current_time); return False
check_rate_limit_append(t) ==
    /\ rate_call[t].pc = "append"
    /\ LET c == rate_call[t] IN
       /\ REQUEST_TRACKING' = TrackingSet(c.client_ip, Append(TrackingGet(c.client_ip), c.current_time))
       /\ admitted' = Append(admitted, [client_ip |-> c.client_ip, time |-> c.current_time])
    /\ rate_call' = [rate_call EXCEPT ![t] = NoCheck]
    /\ UNCHANGED <<now, requests>>
    /\ UNCHANGED notRate

RateNext ==
    \/ clock_tick
    \/ \E t \in HandlerThreads :
          \/ \E client_ip \in ClientIps : check_rate_limit_clean(t, client_ip)
          \/ check_rate_limit_store(t)
          \/ check_rate_limit_check(t)
          \/ check_rate_limit_append(t)

-----------------------------------------------------------------------------
(* The specifications.                                                     *)

RateIdle ==
    /\ REQUEST_TRACKING = <<>>
    /\ rate_call = <<>>
    /\ admitted = <<>>
    /\ now = 0
    /\ requests = 0

PaletteIdle ==
    /\ PALETTE_ARRAY = "unbound"
    /\ dcall = <<>>

DitherIdle ==
    /\ dth_data = <<>>
    /\ dth_priority = "none"
    /\ dth_pc = "none"
    /\ dth_y = 0
    /\ error_buffer = <<>>
    /\ row_with_error = <<>>
    /\ quant_errors = <<>>
    /\ dth_indices = <<>>
    /\ enc_indices = <<>>

CookieIdle ==
    /\ ck_fn = "none"
    /\ ck_input = <<>>
    /\ ck_cookies = <<>>
    /\ ck_i = 0
    /\ ck_out = <<>>
    /\ ck_pc = "none"

CompIdle ==
    /\ pc = "idle"
    /\ hist = <<>>
    /\ buffer = <<>>
    /\ image_tasks = <<>>
    /\ image_count = 0
    /\ next_ebd_ref = 1
    /\ total_size = 0
    /\ parsing_supported_tag = TRUE
    /\ cleanup_required = FALSE
    /\ error = "none"
    /\ page = <<>>

ConvIdle ==
    /\ conv_src = [kind |-> "none", width |-> 0, height |-> 0, mode |-> "", content |-> ""]
    /\ override_scale_logic = FALSE
    /\ init_task = [state |-> "none", exc |-> ""]
    /\ init_complete = FALSE
    /\ self_image = NoImage
    /\ call = NoCall
    /\ call_pc = "none"
    /\ call_result = NoResult
    /\ grayscale_depth = NoParser

M9Idle ==
    /\ m9_rows = <<>>
    /\ m9_y = 1
    /\ m9_index = 0
    /\ m9_out = <<>>

ScanIdle ==
    /\ scan_rows = <<>>
    /\ scan_i = 1
    /\ scan_out = <<>>

ServerIdle ==
    /\ request = NoRequest
    /\ srv_pc = "none"
    /\ headers_sent = FALSE
    /\ wfile = <<>>
    /\ raised = <<>>

QuantIdle ==
    /\ q_fn = "none"
    /\ q_levels = 0
    /\ q_pixel = 0
    /\ q_dist = NoDist
    /\ q_pc = "none"
    /\ q_out = [kind |-> "none", index |-> 0]

PackIdle ==
    /\ pack_mode = 0
    /\ pack_rows = <<>>
    /\ pack_y = 1
    /\ pack_out = <<>>
    /\ width_bytes = 0
    /\ scan_result = NoScanResult

TagIdle ==
    /\ tag_name = ""
    /\ tag_base = None
    /\ tag_input = <<>>
    /\ tag_attrs = <<>>
    /\ tag_pc = "none"
    /\ tag_out = NoTagOut

Init == CompInit /\ ConvIdle /\ M9Idle /\ ScanIdle /\ TagIdle /\ PackIdle /\ QuantIdle /\ ServerIdle /\ CookieIdle /\ DitherIdle /\ PaletteIdle /\ RateIdle

Next == CompNext

Spec == Init /\ [][Next]_vars

\* The event loop runs every task that is ready: a step that stays possible
\* is taken.
ConvSpecInit == CompIdle /\ ConvInit /\ M9Idle /\ ScanIdle /\ TagIdle /\ PackIdle /\ QuantIdle /\ ServerIdle /\ CookieIdle /\ DitherIdle /\ PaletteIdle /\ RateIdle

ConvSpec ==
    /\ ConvSpecInit
    /\ [][ConvNext]_vars
    /\ WF_vars(ConvNext)

M9SpecInit == CompIdle /\ ConvIdle /\ M9Init /\ ScanIdle /\ TagIdle /\ PackIdle /\ QuantIdle /\ ServerIdle /\ CookieIdle /\ DitherIdle /\ PaletteIdle /\ RateIdle

M9Spec ==
    /\ M9SpecInit
    /\ [][M9Next]_vars

ScanSpecInit == CompIdle /\ ConvIdle /\ M9Idle /\ ScanInit /\ TagIdle /\ PackIdle /\ QuantIdle /\ ServerIdle /\ CookieIdle /\ DitherIdle /\ PaletteIdle /\ RateIdle

ScanSpec ==
    /\ ScanSpecInit
    /\ [][ScanNext]_vars

TagSpecInit == CompIdle /\ ConvIdle /\ M9Idle /\ ScanIdle /\ TagInit /\ PackIdle /\ QuantIdle /\ ServerIdle /\ CookieIdle /\ DitherIdle /\ PaletteIdle /\ RateIdle

TagSpec ==
    /\ TagSpecInit
    /\ [][TagNext]_vars

PackSpecInit == CompIdle /\ ConvIdle /\ M9Idle /\ ScanIdle /\ TagIdle /\ PackInit /\ QuantIdle /\ ServerIdle /\ CookieIdle /\ DitherIdle /\ PaletteIdle /\ RateIdle

PackSpec ==
    /\ PackSpecInit
    /\ [][PackNext]_vars

QuantSpecInit ==
    CompIdle /\ ConvIdle /\ M9Idle /\ ScanIdle /\ TagIdle /\ PackIdle /\ QuantInit /\ ServerIdle /\ CookieIdle /\ DitherIdle /\ PaletteIdle /\ RateIdle

QuantSpec ==
    /\ QuantSpecInit
    /\ [][QuantNext]_vars

ServerSpecInit ==
    CompIdle /\ ConvIdle /\ M9Idle /\ ScanIdle /\ TagIdle /\ PackIdle /\ QuantIdle /\ ServerInit /\ CookieIdle /\ DitherIdle /\ PaletteIdle /\ RateIdle

ServerSpec ==
    /\ ServerSpecInit
    /\ [][ServerNext]_vars


CookieSpecInit ==
    CompIdle /\ ConvIdle /\ M9Idle /\ ScanIdle /\ ServerIdle /\ QuantIdle /\ PackIdle /\ TagIdle /\ CookieInit /\ DitherIdle /\ PaletteIdle /\ RateIdle

CookieSpec ==
    /\ CookieSpecInit
    /\ [][CookieNext]_vars

DitherSpecInit ==
    CookieIdle /\ CompIdle /\ ConvIdle /\ M9Idle /\ ScanIdle /\ ServerIdle /\ QuantIdle /\ PackIdle /\ TagIdle /\ DitherInit /\ PaletteIdle /\ RateIdle

DitherSpec ==
    /\ DitherSpecInit
    /\ [][DitherNext]_vars

PaletteSpecInit ==
    DitherIdle /\ CookieIdle /\ CompIdle /\ ConvIdle /\ M9Idle /\ ScanIdle /\ ServerIdle /\ QuantIdle /\ PackIdle /\ TagIdle /\ PaletteInit /\ RateIdle

PaletteSpec ==
    /\ PaletteSpecInit
    /\ [][PaletteNext]_vars

RateSpecInit ==
    PaletteIdle /\ DitherIdle /\ CookieIdle /\ CompIdle /\ ConvIdle /\ M9Idle /\ ScanIdle /\ ServerIdle /\ QuantIdle /\ PackIdle /\ TagIdle /\ RateInit

RateSpec ==
    /\ RateSpecInit
    /\ [][RateNext]_vars

-----------------------------------------------------------------------------
(* Properties of the page composer.                                        *)

Returned == pc \in {"returned", "got"}

\* The positions of the <img src=...> tokens fed so far.
SrcImgPositions ==
    {n \in 1..Len(hist) : hist[n].type = "start" /\ hist[n].tag = "img" /\ hist[n].src # NoSrc}

\* The chunks of the buffer a task may fill: those reserved for an <img src>.
IsEnvelope(c) == c.kind = "envelope"

\* The NAME integers of the envelopes of the buffer, in document order.
EnvRefs(buf) ==
    LET env == SelectSeq(buf, IsEnvelope) IN [n \in 1..Len(env) |-> env[n].ref]

\* Chunk c is an output of token tok.
StandsFor(c, tok) ==
    CASE c.kind = "tag" -> tok.type = "start" /\ tok.tag # "img" /\ c.text = Upper(tok.tag)
      [] c.kind = "endtag" -> tok.type = "end" /\ c.text = Upper(tok.tag)
      [] c.kind = "text" -> tok.type = "data" /\ c.len = tok.len
      [] c.kind = "diag" /\ c.text = "Missing image source" ->
             tok.type = "start" /\ tok.tag = "img" /\ tok.src = NoSrc
      [] OTHER -> tok.type = "start" /\ tok.tag = "img" /\ tok.src # NoSrc

\* C1 (as claimed): a page that feed_async returned normally is at most
\* max_size bytes long, counting every chunk kind.
C1_PageWithinBudget == Returned => PageBytes(buffer) <= max_size

\* C2 (as claimed): an image whose envelope would push total_size past
\* max_size makes feed_async raise; the page is never returned normally with
\* that image replaced by a diagnostic paragraph.
C2_OverBudgetPropagates ==
    Returned => \A i \in TaskIds : image_tasks[i].outcome # "over_budget"

\* C3: whatever the completion order of the image tasks, the buffer holds
\* the chunks in the order of the tokens they stand for, every task's result
\* sits in the slot reserved for its own <img>, and a finished page has no
\* chunk that a task overwrote or left unfilled.
C3_SlotOrder ==
    /\ \A j, k \in 1..Len(buffer) : j < k => buffer[j].origin < buffer[k].origin
    /\ \A j \in 1..Len(buffer) :
         /\ buffer[j].origin \in 1..Len(hist)
         /\ StandsFor(buffer[j], hist[buffer[j].origin])
    /\ \A i \in TaskIds :
         LET t == image_tasks[i]
             c == buffer[t.buffer_index] IN
         /\ t.buffer_index \in 1..Len(buffer)
         /\ c.origin = t.origin
         /\ t.state = "done" <=> c.kind \in {"envelope", "diag"}
         /\ t.state # "done" <=> c.kind = "placeholder"
    /\ \A i, j \in TaskIds :
         i < j => image_tasks[i].buffer_index < image_tasks[j].buffer_index

\* C3 witness: a page was returned in which the second image finished
\* before the first (it took the first NAME), with text in front.
C3_Witness ==
    /\ Returned
    /\ Len(image_tasks) >= 2
    /\ \E j, k \in 1..Len(buffer) :
         /\ j < k
         /\ IsEnvelope(buffer[j]) /\ IsEnvelope(buffer[k])
         /\ buffer[j].ref > buffer[k].ref
    /\ \E j \in 1..Len(buffer) : buffer[j].kind \in {"text", "tag"}

\* C4 (as claimed): the NAMEs of the envelopes of a finished page, in
\* document order, are 1, 2, ..., k.
C4_NamesInDocOrder ==
    Returned => EnvRefs(buffer) = [n \in 1..Len(EnvRefs(buffer)) |-> n]

\* C5: at most MAX_IMAGES_PER_PAGE image tasks exist; and when a page with
\* more <img src> tags than that is returned with every converted image in
\* its envelope, the first MAX_IMAGES_PER_PAGE <img src> tags have the
\* envelopes and each later one has '[Image limit exceeded]'.
C5_ImageLimit ==
    /\ Len(image_tasks) <= MAX_IMAGES_PER_PAGE
    /\ image_count <= MAX_IMAGES_PER_PAGE
    /\ ( /\ Returned
         /\ Cardinality(SrcImgPositions) > MAX_IMAGES_PER_PAGE
         /\ \A i \in TaskIds : image_tasks[i].outcome = "envelope" )
       => /\ Len(image_tasks) = MAX_IMAGES_PER_PAGE
          /\ Len(EnvRefs(buffer)) = MAX_IMAGES_PER_PAGE
          /\ \A j \in 1..Len(buffer) :
               buffer[j].origin \in SrcImgPositions =>
                 LET earlier == Cardinality({n \in SrcImgPositions : n < buffer[j].origin}) IN
                 IF earlier < MAX_IMAGES_PER_PAGE
                 THEN IsEnvelope(buffer[j])
                 ELSE buffer[j] = Diag("Image limit exceeded", buffer[j].origin)
          /\ \A n \in SrcImgPositions : \E j \in 1..Len(buffer) : buffer[j].origin = n

\* C5 witness: more <img src> tags than the limit, all converted.
C5_Witness ==
    /\ Returned
    /\ Cardinality(SrcImgPositions) > MAX_IMAGES_PER_PAGE
    /\ Len(image_tasks) = MAX_IMAGES_PER_PAGE
    /\ \A i \in TaskIds : image_tasks[i].outcome = "envelope"

\* C6 (as claimed): a failure of an image task that is not the page budget
\* never makes feed_async raise and never cancels another task; a returned
\* page has every slot filled, a failed one with its diagnostic.
C6_FailuresSelfHandled ==
    /\ error \in {"none", "ContentTooLargeError"}
    /\ error = "none" => \A i \in TaskIds : image_tasks[i].state # "cancelled"
    /\ Returned =>
         \A i \in TaskIds :
           LET t == image_tasks[i]
               c == buffer[t.buffer_index] IN
           /\ t.state = "done"
           /\ c.kind # "placeholder"
           /\ t.outcome = "invalid_url" => c = Diag("Invalid image URL", t.origin)
           /\ t.outcome = "too_large" => c = Diag("Image too large", t.origin)
           /\ t.outcome = "timeout" => c = Diag("Image processing timeout", t.origin)
           /\ t.outcome = "error" => c = Diag("Image processing error", t.origin)

\* Token i lies inside an element outside the whitelist: before it an unknown
\* start tag was seen whose end tag has not come yet.  An unknown start tag
\* is itself inside the element it opens.
InsideUnknown(i) ==
    LET Opens(j) == hist[j].type = "start" /\ Upper(hist[j].tag) \notin SUPPORTED_TAGS
        Closes(j) == hist[j].type = "end" /\ Upper(hist[j].tag) \notin SUPPORTED_TAGS IN
    Cardinality({j \in 1..i : Opens(j)}) > Cardinality({j \in 1..(i - 1) : Closes(j)})

\* C12 (as claimed): nothing is emitted for a token between an unknown start
\* tag and its matching end tag (the tag itself, text, child elements,
\* images), and text after the matching end tag is emitted again.
C12_UnknownSuppressed ==
    /\ \A k \in 1..Len(buffer) : ~InsideUnknown(buffer[k].origin)
    /\ pc = "feed" =>
          \A i \in 1..Len(hist) :
              hist[i].type = "data" /\ hist[i].len > 0 /\ ~InsideUnknown(i)
                  => \E k \in 1..Len(buffer) : buffer[k].origin = i

\* The tag names a client finds in a piece of text.
MarkupTags(text) ==
    CASE text = "<script>" -> {"SCRIPT"}
      [] text = "&lt;script&gt;" -> {}
      [] OTHER -> {}

\* The tag names in a chunk of the page, upper-cased; the image envelope
\* (IMG, EBDIMAGE) is set aside.
TagNames(c) ==
    CASE c.kind \in {"tag", "endtag"} -> {c.text}
      [] c.kind = "text" -> MarkupTags(c.text)
      [] c.kind = "diag" -> {"P"}
      [] OTHER -> {}

\* C13 (as claimed): every tag name in the composed output is in the
\* whitelist, whatever the input, character references that decode to markup
\* included.
C13_OnlyWhitelistedTags ==
    \A k \in 1..Len(buffer) : TagNames(buffer[k]) \subseteq SUPPORTED_TAGS

-----------------------------------------------------------------------------
(* Properties of start tags with attributes.                               *)

\* The names of a list of <<name, value>> pairs, in order.
AttrNames(attrs) == [k \in 1..Len(attrs) |-> attrs[k][1]]

\* The rule C14 states for one input attribute of a tag: its upper-cased name
\* is in the tag's whitelist and, when the pair has an enumerated value set,
\* its value matches the set without regard to case.
ClaimedKeep(tag, name, value) ==
    /\ Upper(tag) \in DOMAIN SUPPORTED_ATTRIBUTES
    /\ UpperWord(name) \in SUPPORTED_ATTRIBUTES[Upper(tag)]
    /\ <<Upper(tag), UpperWord(name)>> \in DOMAIN ALLOWED_ATTRIBUTE_VALUES
          => /\ value.has
             /\ ValueAllowed(<<Upper(tag), UpperWord(name)>>, value)

ClaimedNames(tag, attrs) ==
    LET Kept(a) == ClaimedKeep(tag, a[1], a[2]) IN
    [k \in 1..Len(SelectSeq(attrs, Kept)) |-> UpperWord(SelectSeq(attrs, Kept)[k][1])]

\* C14 (as claimed): a whitelisted start tag is always emitted, whatever its
\* attributes (one written without a value included), never raises, and
\* carries exactly the input attributes that pass the whitelist and the
\* value enumeration, in input order.
C14_AttributesFiltered ==
    /\ tag_pc # "raised"
    /\ tag_pc = "built" =>
          /\ tag_out.tag = Upper(tag_name)
          /\ AttrNames(tag_out.attrs) = ClaimedNames(tag_name, tag_input)

\* C15 (as claimed): no HREF emitted for an A tag has the scheme https, and
\* every other emitted attribute, of A or of another tag (FORM.ACTION
\* included), carries the value it had in the input.
C15_LinksRewritten ==
    tag_pc = "built" =>
        \A k \in 1..Len(tag_out.attrs) :
            LET name == tag_out.attrs[k][1]
                value == tag_out.attrs[k][2] IN
            IF tag_name = "a" /\ name = "HREF"
            THEN LowerScheme(value.scheme) # "https"
            ELSE \E j \in 1..Len(tag_input) :
                    /\ UpperWord(tag_input[j][1]) = name
                    /\ Str(tag_input[j][2]) = value

-----------------------------------------------------------------------------
(* Properties of the image converter.                                      *)

CallCompleted == call_pc \in {"returned", "raised"}

\* C7 (as claimed): every convert_* call made on a constructed converter
\* eventually returns an EBDImage or raises, also when the background
\* initialization failed.
C7_CallsComplete == (call_pc # "idle") ~> CallCompleted

\* The scaling rule as C10 states it.
ClaimedScale(w, h) ==
    IF w > 306 THEN [width |-> 153, height |-> RoundDiv(h * 153, w)]
    ELSE IF w > 100 THEN [width |-> w \div 2, height |-> h \div 2]
    ELSE [width |-> w, height |-> h]

\* C10 (as claimed): a raster image of size (W,H) is prepared at
\* (153, round(H*153/W)) when W > 306, at (W/2, H/2) when 100 < W <= 306, and
\* unchanged when W <= 100.
C10_ScalerRule ==
    ( /\ init_task.state = "done"
      /\ conv_src.kind \in {"image", "file"}
      /\ ~override_scale_logic )
    => self_image = ClaimedScale(conv_src.width, conv_src.height)

\* A raster source of more than 1,000,000 pixels.
Oversize(src) == src.kind \in {"image", "file"} /\ src.width * src.height > 1000000

\* C11 (as claimed): an image of more than 1,000,000 pixels is rejected before
\* scaling and encoding in whatever form it arrives: no call on its converter
\* gets as far as encoding it, and none returns an EBDImage.
C11_OversizeRejected ==
    Oversize(conv_src) => /\ self_image = NoImage
                          /\ call_pc \notin {"converting", "returned"}

-----------------------------------------------------------------------------
(* Properties of the uncompressed bitmap coders.                           *)

\* Pixels per byte of a mode.
PerByte(mode) == CASE mode = 0 -> 8 [] mode = 2 -> 4 [] mode = 4 -> 2

\* The value the coder of a mode packs for a pixel: 1 for black, the 2-bit
\* level, the 4-bit level.
PackedValue(mode, v) ==
    CASE mode = 0 -> IF v = 0 THEN 1 ELSE 0
      [] mode = 2 -> v \div 64
      [] mode = 4 -> Nibble(v)

\* The obvious unpacker: field k (0 = leftmost, in the high-order bits) of a
\* byte that holds n fields of 8/n bits.
Field(byte, n, k) == (byte \div Pow2((8 \div n) * (n - 1 - k))) % Pow2(8 \div n)

\* The pixel at column x (0-based) of row y (0-based) of a stream whose rows
\* are row_bytes long.
Unpack(bytes, mode, row_bytes, x, y) ==
    Field(bytes[y * row_bytes + (x \div PerByte(mode)) + 1], PerByte(mode), x % PerByte(mode))

\* C16 (as claimed): for every width, each row of the output of the mode
\* 0/2/4 coder is ceil(W / pixels-per-byte) bytes, the obvious unpacker
\* (first pixel in the high-order bits) gives back the packed values, and
\* the unused low-order fields of a row's last byte are zero.
C16_PackingReversible ==
    PackDone =>
      LET w == Len(pack_rows[1])
          n == PerByte(pack_mode)
          row_bytes == CeilDiv(w, n) IN
      /\ Len(pack_out) = Len(pack_rows) * row_bytes
      /\ \A y \in 0..(Len(pack_rows) - 1) :
           /\ \A x \in 0..(w - 1) :
                Unpack(pack_out, pack_mode, row_bytes, x, y)
                    = PackedValue(pack_mode, pack_rows[y + 1][x + 1])
           /\ \A x \in w..(row_bytes * n - 1) :
                Unpack(pack_out, pack_mode, row_bytes, x, y) = 0

\* C27 (as claimed): for the scanline modes 1, 3 and 5 the row width handed
\* to the scanline coder is the number of bytes of one image row in the
\* packed stream it compresses.
C27_RowWidthIsPackedRowWidth ==
    width_bytes # 0 => width_bytes = Len(PackedRow(pack_mode, pack_rows[1]))

\* C18 (as claimed): the composer's image is encoded in colour mode 9 exactly
\* when no grayscale depth was requested; with a requested depth d it goes
\* through convert_gs(d): mode 4 for d = 4, a 2-bit grey mode for d = 2, and
\* for any other d, 0 included, no EBDImage but an exception, which the
\* composer turns into a diagnostic.
C18_ModeFollowsDepth ==
    (grayscale_depth.given /\ call_pc \in {"returned", "raised"}) =>
        /\ (call_result.kind = "EBDImage" /\ call_result.mode = 9) <=> grayscale_depth.none
        /\ ~grayscale_depth.none =>
              CASE grayscale_depth.depth = 4 ->
                       call_result.kind = "EBDImage" /\ call_result.mode = 4
                [] grayscale_depth.depth = 2 ->
                       call_result.kind = "EBDImage" /\ call_result.mode \in {2, 3}
                [] OTHER -> call_result.kind = "exception"

\* C21 (as claimed): when feed_async has raised, every image task of the
\* page is finished or cancelled, the task list is empty and the page buffer
\* is empty, whether or not the page contained an <img>.
C21_RaiseLeavesNothing ==
    pc = "raised" =>
        /\ \A i \in TaskIds : Finished(image_tasks[i])
        /\ image_tasks = <<>>
        /\ buffer = <<>>

\* C24 (as claimed): at every point of a page's composition total_size is
\* the sum of the byte lengths of the finalized chunks in the page buffer
\* (a placeholder counts nothing).
C24_TotalSizeIsBufferSize ==
    pc \in {"feed", "gather", "returned"} => total_size = PageBytes(buffer)

-----------------------------------------------------------------------------
(* Properties of the request handler.                                      *)

\* C19 (as claimed): on every path through handle_request the bytes written
\* to the client are exactly one frame prefix (twelve 0x00, then 0D 0A 0D 0A)
\* followed by the body; the prefix is never missing and never written twice.
C19_OneFramePerResponse ==
    srv_pc = "done" =>
        /\ Len(wfile) = 3
        /\ SubSeq(wfile, 1, 2) = FRAME_PREFIX
        /\ wfile[3] \notin {FRAME_PREFIX[1], FRAME_PREFIX[2]}

\* C20 (as claimed): when the fetch or the composition raised the too-large
\* error, the answer is the frame prefix followed by the rendered too-large
\* page, not the not-found page and not 'Internal Server Error'.
C20_TooLargePageServed ==
    (srv_pc = "done" /\ Len(raised) > 0 /\ raised[1] = "ContentTooLargeError") =>
        wfile = FRAME_PREFIX \o <<"page_too_large">>

-----------------------------------------------------------------------------
(* Properties of quantization.                                             *)

-----------------------------------------------------------------------------
(* Properties of the mode-9 coder.                                         *)

IsRleCode(b) == b \in {RLE(k) : k \in 1..6}
IsCopyCode(b) == b \in {COPY(k, o) : k \in 1..6, o \in -1..1}
RleOf(b) == CHOOSE k \in 1..6 : RLE(k) = b
CopyOf(b) == CHOOSE ko \in (1..6) \X (-1..1) : COPY(ko[1], ko[2]) = b

\* n copies of v
Rep(v, n) == [k \in 1..n |-> v]

\* A pixel the decoder cannot produce (a copy from outside the image, a
\* stream that ends early, a control code out of place).
Undecodable == 0 - 1

RECURSIVE CopyFromPrev(_, _, _, _)
\* img extended by k pixels, each the pixel of the row above at offset o.
CopyFromPrev(img, w, o, k) ==
    IF k = 0 THEN img
    ELSE LET from == Len(img) + 1 - w + o IN
         CopyFromPrev(Append(img, IF from \in 1..Len(img) THEN img[from] ELSE Undecodable),
                      w, o, k - 1)

RECURSIVE M9Decode(_, _, _)
\* The decoder of the mode-9 stream for rows of width w: a byte below 231 is
\* a literal; a literal followed by RLE_k stands for the pixel and k further
\* ones; COPY_k_OFFSET_o copies k pixels of the row above; a *_6 code is
\* followed by a length byte added to the 6.
M9Decode(bytes, w, img) ==
    IF bytes = <<>> THEN img
    ELSE LET b == Head(bytes) IN
         IF b < 231
         THEN IF Len(bytes) >= 2 /\ IsRleCode(bytes[2])
              THEN LET k == RleOf(bytes[2]) IN
                   IF k < 6
                   THEN M9Decode(SubSeq(bytes, 3, Len(bytes)), w, img \o Rep(b, k + 1))
                   ELSE IF Len(bytes) >= 3
                   THEN M9Decode(SubSeq(bytes, 4, Len(bytes)), w,
                                 img \o Rep(b, 6 + bytes[3] + 1))
                   ELSE Append(img, Undecodable)
              ELSE M9Decode(Tail(bytes), w, Append(img, b))
         ELSE IF IsCopyCode(b)
         THEN LET ko == CopyOf(b) IN
              IF ko[1] < 6
              THEN M9Decode(Tail(bytes), w, CopyFromPrev(img, w, ko[2], ko[1]))
              ELSE IF Len(bytes) >= 2
              THEN M9Decode(SubSeq(bytes, 3, Len(bytes)), w,
                            CopyFromPrev(img, w, ko[2], 6 + bytes[2]))
              ELSE Append(img, Undecodable)
         ELSE Append(img, Undecodable)

RECURSIVE Flatten(_)
Flatten(rows) == IF rows = <<>> THEN <<>> ELSE Head(rows) \o Flatten(Tail(rows))

\* The palette indices of the image, row-major.
M9Indices ==
    Flatten([y \in 1..Len(m9_rows) |->
               [x \in 1..Len(m9_rows[y]) |-> find_closest_palette_index(m9_rows[y][x])]])

\* C8 (as claimed): decoding the bytes compress_line produced for the rows
\* of an image gives back the W*H palette indices of the image.
C8_Mode9RoundTrip ==
    M9Done => M9Decode(m9_out, Len(m9_rows[1]), <<>>) = M9Indices

\* C25 (as claimed): in compress_line the position never passes the end of
\* the row: every emission advances within the row and the loop ends with
\* the position equal to the row length.
C25_PositionWithinRow ==
    ~M9Done => m9_index <= Len(M9Line)

\* The further pixels equal to the one at the position: the run there, less
\* the pixel itself.
FurtherEqual == RunLength(M9Line, m9_index, 0) - 1

\* C26 (as claimed): an RLE emission for a pixel followed by k further equal
\* pixels writes the colour index and RLE_k (RLE_6 and the byte k - 6 from
\* k = 6 on), and advances the position by exactly k + 1.
C26_RleEmission ==
    [][compress_line_rle =>
         LET k == FurtherEqual
             active_colour == find_closest_palette_index(At(M9Line, m9_index)) IN
         /\ k >= 1
         /\ m9_index' = m9_index + k + 1
         /\ m9_out' = IF k >= 6
                      THEN m9_out \o <<active_colour, RLE(6), k - 6>>
                      ELSE m9_out \o <<active_colour, RLE(k)>>]_vars

-----------------------------------------------------------------------------
(* Properties of the scanline coder.                                       *)

\* Bit k (0 = most significant) of a mask byte.
MaskBit(mask, k) == (mask \div Pow2(7 - k)) % 2 = 1

RECURSIVE ScanDecodeRow(_, _, _, _)
\* Decode one row of `width` bytes against the row before it: at each chunk
\* start a mask byte, then a literal for every set bit, the byte of the
\* previous row otherwise.  Gives the row and the bytes left over.
ScanDecodeRow(bytes, prev, width, row) ==
    IF Len(row) = width THEN [row |-> row, rest |-> bytes, ok |-> TRUE]
    ELSE IF bytes = <<>> THEN [row |-> row, rest |-> bytes, ok |-> FALSE]
    ELSE LET mask == Head(bytes)
             size == IF width - Len(row) < 8 THEN width - Len(row) ELSE 8
             RECURSIVE Fill(_, _, _)
             Fill(k, rest, acc) ==
                 IF k = size THEN [acc |-> acc, rest |-> rest, ok |-> TRUE]
                 ELSE IF MaskBit(mask, k)
                 THEN IF rest = <<>> THEN [acc |-> acc, rest |-> rest, ok |-> FALSE]
                      ELSE Fill(k + 1, Tail(rest), Append(acc, Head(rest)))
                 ELSE Fill(k + 1, rest,
                           Append(acc, IF prev = <<>> THEN 0 ELSE prev[Len(acc) + 1]))
             got == Fill(0, Tail(bytes), row) IN
         IF got.ok THEN ScanDecodeRow(got.rest, prev, width, got.acc)
         ELSE [row |-> got.acc, rest |-> got.rest, ok |-> FALSE]

RECURSIVE ScanDecode(_, _, _, _)
\* Decode n rows; the rows, or <<>> with ok = FALSE when the stream does not
\* hold them exactly.
ScanDecode(bytes, width, n, rows) ==
    IF n = 0 THEN [rows |-> rows, ok |-> bytes = <<>>]
    ELSE LET prev == IF rows = <<>> THEN <<>> ELSE rows[Len(rows)]
             got == ScanDecodeRow(bytes, prev, width, <<>>) IN
         IF got.ok THEN ScanDecode(got.rest, width, n - 1, Append(rows, got.row))
         ELSE [rows |-> rows, ok |-> FALSE]

\* C9 (as claimed): decoding the output of compress_data_with_scanline row
\* by row with the same width reproduces the input byte matrix, for every
\* width.
C9_ScanlineRoundTrip ==
    ScanDone =>
      LET got == ScanDecode(scan_out, Len(scan_rows[1]), Len(scan_rows), <<>>) IN
      got.ok /\ got.rows = scan_rows

-----------------------------------------------------------------------------
(* Properties of the cookie manager.                                       *)

\* The names of the legal-keyed input cookies within the size limit, in input order.
RECURSIVE ValidNames(_)
ValidNames(cs) ==
    IF cs = <<>> THEN <<>>
    ELSE IF IsLegalKey(Head(cs).name) /\ cookie_size(Head(cs)) <= MAX_COOKIE_SIZE
         THEN <<Head(cs).name>> \o ValidNames(Tail(cs))
         ELSE ValidNames(Tail(cs))

\* C22 (as claimed): prepare_request_cookies and prepare_response_cookies
\* return at most MAX_COOKIES_PER_SITE cookies, each with a name=value size of
\* at most MAX_COOKIE_SIZE bytes; they are the first valid cookies of the
\* input in input order, oversized ones skipped without counting.
C22_CookieLimits ==
    ck_pc = "done" =>
        LET valid == ValidNames(ck_input)
            n == IF Len(valid) < MAX_COOKIES_PER_SITE THEN Len(valid)
                 ELSE MAX_COOKIES_PER_SITE IN
        /\ Len(ck_out) <= MAX_COOKIES_PER_SITE
        /\ \A i \in 1..Len(ck_out) : ck_out[i].size <= MAX_COOKIE_SIZE
        /\ [i \in 1..Len(ck_out) |-> ck_out[i].name] = SubSeq(valid, 1, n)

-----------------------------------------------------------------------------
(* Properties of dithering.                                                *)

\* C23 (as claimed): the colour conversion applies the ditherer that
\* IMAGE_DITHER_PRIORITY selects and encodes the palette indices that
\* ditherer produced.
C23_EncodesDitheredIndices ==
    (dth_pc = "dithered" /\ enc_indices # <<>>) => enc_indices = dth_indices

\* The residual of pixel (x, y), 0 outside the image.
Residual(y, x) ==
    IF y \in 1..DthHeight /\ x \in 1..DthWidth THEN quant_errors[y][x] ELSE 0

\* C28 (as claimed): in Floyd-Steinberg dithering the value quantized at
\* (x, y) is clip(source + e, 0, 255), e being 7/16 of the residual of
\* (x-1, y), 3/16 of (x+1, y-1), 5/16 of (x, y-1) and 1/16 of (x-1, y-1),
\* terms outside the image dropped, on every row including the last.
C28_FloydSteinbergShares ==
    dth_pc \in {"floyd_steinberg", "dithered"} /\ dth_priority = "quality" =>
        \A y \in 1..(dth_y - 1) : \A x \in 1..DthWidth :
            row_with_error[y][x] =
                Clip255(dth_data[y][x] * Unit
                        + (7 * Residual(y, x - 1) + 3 * Residual(y - 1, x + 1)
                           + 5 * Residual(y - 1, x) + Residual(y - 1, x - 1)) \div 16)

-----------------------------------------------------------------------------
(* Properties of the dithering palette.                                    *)

\* C29 (as claimed): the palette a dithering call reads is always the
\* palette of that call, under every interleaving of calls: never the
\* palette of another concurrent apply_dithering call, and never missing
\* when a ditherer is called directly.
C29_OwnPalette ==
    \A t \in DitherThreads :
        /\ dcall[t].pc # "NameError"
        /\ dcall[t].entry = "apply_dithering" =>
              \A k \in 1..Len(dcall[t].used) : dcall[t].used[k] = CallPalette(dcall[t])

-----------------------------------------------------------------------------
(* Properties of the rate limiter.                                         *)

\* How many times v occurs in a sequence.
Occurrences(seq, v) == Cardinality({k \in 1..Len(seq) : seq[k] = v})

\* The requests of an address admitted with a time in from..to.
AdmittedIn(client_ip, from, to) ==
    {k \in 1..Len(admitted) :
        admitted[k].client_ip = client_ip /\ admitted[k].time \in from..to}

\* C30 (as claimed): under any interleaving of the handler threads, for each
\* address the requests admitted within any window of the limiter's length
\* are at most MAX_REQUESTS_PER_MIN, and every admitted request that is not
\* yet old enough to be cleaned is recorded in REQUEST_TRACKING.
C30_RateLimitHolds ==
    \A client_ip \in ClientIps :
        /\ \A w \in 0..MaxTime :
              Cardinality(AdmittedIn(client_ip, w, w + RateWindow - 1)) <= MAX_REQUESTS_PER_MIN
        /\ \A w \in 0..MaxTime :
              now - w < RateWindow =>
                  Occurrences(TrackingGet(client_ip), w)
                      >= Cardinality(AdmittedIn(client_ip, w, w))

====
